---- MODULE Spec2Model ----
(***************************************************************************)
(* A model of the TabPFN prompt-tuning training code:                      *)
(*   src/tabpfn/train.py       train(): loaders, train_epoch, prefix       *)
(*                             concatenation, the ensembling loop          *)
(*   src/tabpfn/priors/real.py TabularDataset, SubsetMaker, TabDS          *)
(*   src/tabpfn/train_loop.py  configuration and checkpoint callbacks      *)
(* Each part of the program has its own variables, its own actions and its *)
(* own specification; a specification holds the other parts' variables at  *)
(* their idle values.                                                      *)
(***************************************************************************)
EXTENDS Integers, Sequences, FiniteSets, TLC

(***************************************************************************)
(* Bounds of the model.                                                    *)
(***************************************************************************)
MaxN == 8
MaxBptt == 4
MaxK == 3
MaxEval == 1
MaxEpochs == 2
MaxIters == 3
MaxLr == 2
MaxPrefix == 2
MaxSaved == 2
MaxDim == 2
MaxClasses == 3
MaxCalls == 3
MaxAxis == 3
MaxRowAxis == 2
MaxSubsetCalls == 2
MaxInterrupts == 2
MaxRank == 1
MaxPeriod == 2
MaxDepth == 2
MaxBatches == 2
MaxSaveEvery == 3
MaxCallbackEpochs == 4

VARIABLES
    \* ---- real-data loaders of train(), train.py 89-105
    l_pc,                   \* position in lines 89-105
    train_len,              \* len(train_ds)
    bptt,                   \* the window size (argument bptt, incremented in place)
    bptt_arg,               \* the value bptt was passed with
    aggregate_k_gradients,  \* the accumulation factor
    dl,                     \* the training DataLoader
    val_dl,                 \* the validation DataLoader
    test_dl,                \* the test DataLoader
    n_incr,                 \* how many times line 94 has run
    val_len,                \* len(val_ds)
    test_len,               \* len(test_ds)
    \* ---- train_epoch as train_test_loop calls it, train.py 221-361, 440-445
    te_pc,                  \* position: call / batch / returned / assert_failed / done
    epochs,                 \* the argument epochs
    epoch,                  \* the epoch of train_test_loop's for loop
    batch,                  \* the batch index of enumerate(dl)
    grad_pending,           \* micro-batch gradients summed in .grad since the last zero_grad
    step_log,               \* this call's boundary steps: [batch, accumulated, ok, synced]
    scaler,                 \* the GradScaler's stage for the optimizer, "None" without one
    te_error,               \* the exception that left train_epoch, or "none"
    using_dist,             \* init_dist found several processes
    backward_log,           \* this call's backward passes: [batch, no_sync]
    grad_synced,            \* what .grad holds has been reduced across the processes
    \* ---- the member loop of train(), train.py 552-633
    m_pc,                   \* position: member0 / ensemble / returned
    is_ensemble,            \* boosting or bagging or rand_init_ensemble (line 552)
    average_ensemble,       \* extra_prior_kwargs_dict.get('average_ensemble')
    boosting_lr,            \* the argument boosting_lr
    boosting_n_iters,       \* the argument boosting_n_iters
    i,                      \* the member index
    output_dict,            \* member index -> recorded output tensor
    test_targets,           \* the validation targets member 0 returned
    ensembling_acc,         \* member index -> {accuracy, ece, tace}
    acc_file,               \* the content of ensembling_acc.json
    trained,                \* member index -> the output its train_test_loop returned
    current_outs,           \* iteration -> the combined output of lines 598-608
    boosting_acc,           \* iteration -> the accuracy of line 612
    \* ---- the prefix of the model and its concatenation, train.py 363-424, 463-478
    p_pc,                   \* position: eval / made / concatenated / restored / raised
    do_concat,              \* the argument do_concat, split at "-"
    prefix_embedding,       \* model.prefix_embedding.weight: a tuple of rows
    prefix_y_embedding,     \* model.prefix_y_embedding
    prefix_size,            \* model.prefix_size
    n_freeze,               \* calls of model.freeze_parameters_except_prefix()
    prefix_weights_l,       \* the saved prefixes of earlier members
    ec,                     \* the EmbeddingConcatenator
    before,                 \* the model's prefix as it was when ec was made
    p_err,                  \* the exception concat_embedding raised
    \* ---- TabularDataset.__init__ on arbitrary arguments, real.py 44-118
    c_pc,                   \* position: args / done
    c_args,                 \* the arguments of the call
    c_result,               \* what the call raised and the object it made
    \* ---- one TabularDataset and one directory p, real.py 133-216
    d_pc,                   \* position: live / idle
    ds,                     \* the dataset object
    fs,                     \* the directory p and its four artifacts
    last_call,              \* the last call: operation, overwrite, raised
    ds_before,              \* the dataset object when the last call began
    fs_before,              \* the directory when the last call began
    read_ds,                \* the object the last read() returned
    n_encode,               \* calls of cat_feature_encode on ds
    n_populated,            \* calls that assigned cat_dims
    fresh,                  \* p holds what write() made of ds as it is now
    n_calls,                \* calls made so far
    \* ---- one SubsetMaker and its make_subset calls, real.py 218-323
    sub_pc,                 \* position: live / idle
    ssm,                    \* the SubsetMaker object
    sub_in,                 \* the arguments of the last make_subset call
    sub_out,                \* what the last call raised and returned
    n_fit,                  \* calls of fit_transform on the feature selector
    fit_support,            \* the columns the first fit chose
    n_subset_calls,         \* make_subset calls made so far
    subset_budget,          \* make_subset calls this run makes
    \* ---- TabDS.__init__ on arbitrary arguments, real.py 530-548
    t_pc,                   \* position: args / done / idle
    t_args,                 \* X and num_features of the call
    t_result,               \* what the call raised and the X it kept
    \* ---- KeyboardInterrupt in the member loop, train.py 560-633
    interrupts,             \* KeyboardInterrupts delivered so far
    run_error,              \* the exception that left train(), or "none"
    \* ---- one process of a real-data run: process_data, then the epoch
    \* ---- loop of train_test_loop and the return of train
    r_pc,                   \* position: prepare / epoch / looped / returned / raised / idle
    r_cfg,                  \* the configuration of the run and the rank of the process
    r_epoch,                \* the epoch of the for loop of line 440
    r_train_epochs,         \* train_epoch calls made
    r_nc_bound,             \* the locals test_score_nc, val_ece_nc, ... are assigned
    r_logs,                 \* epochs whose log document this process wrote
    r_callbacks,            \* epochs at which this process called epoch_callback
    r_error,                \* the exception that ended the run, or "none"
    r_result,               \* what train returned
    \* ---- make_serializable on arbitrary values, train_loop.py 15-42
    ms_pc,                  \* position: args / once / twice / idle
    ms_arg,                 \* the value passed
    ms_out,                 \* make_serializable(ms_arg)
    ms_again,               \* make_serializable(ms_out)
    \* ---- gradient blending across boosting members, train.py 292-322, 567-596
    gb_pc,                  \* position: batch / assign / raised / done / idle
    gb_cfg,                 \* boosting, is_ensemble, boosting_n_iters, epochs, len(dl)
    gb_member,              \* i of train(): the member being trained
    gb_epoch,               \* epoch of train_test_loop
    gb_batch,               \* batch of train_epoch
    gradient_dict,          \* the dict of line 568: batch -> stored output gradient
    prior_grad_dict,        \* "None" or "gradient_dict": the object the name is bound to
    blend_log,              \* boosted batches so far: [member, epoch, batch, prior, stored]
    last_backward,          \* the last boosted batch: raw, prior and the gradient passed to backward
    \* ---- the per-member loaders of the ensembling strategies, train.py 542-595
    bag_pc,                 \* position: setup / loader / train / raised / done / idle
    bag_cfg,                \* bagging, is_ensemble, boosting_n_iters
    dl_backup,              \* the loader of lines 90-97, kept at line 544
    bag_i,                  \* i of train(): the member
    bag_error,              \* the exception that left train(), or "none"
    \* ---- train_function and its epoch callbacks, train_loop.py 44-80
    cb_pc,                  \* position: start / training / done / idle
    cb_config,              \* config_sample: boosting, bagging, epochs, save_every_k_epochs, ...
    save_every_k,           \* the local of lines 46-50
    my_callback,            \* "save_callback" or "no_callback"
    cb_epochs,              \* the list epochs of line 51
    last_saved_epoch,       \* model.last_saved_epoch: [set, v]
    checkpoints,            \* save_model calls: [index, ordinal]
    n_invoked,              \* invocations of the epoch callback so far
    cb_left,                \* invocations train() still makes
    \* ---- the loss values train() returns, train.py 436-445, 555-556, 628-633
    rv_pc,                  \* position: call / epoch / looped / finish / returned / idle
    rv_cfg,                 \* epochs, is_ensemble, boosting_n_iters, rank
    rv_member,              \* i of train()
    rv_epoch,               \* epoch of train_test_loop
    total_loss,             \* the local total_loss of train()
    total_positional_losses,\* the local total_positional_losses of train()
    loop_locals,            \* the locals of the same names of the running train_test_loop call
    rv_result               \* what train() returned

loaderVars == <<l_pc, train_len, bptt, bptt_arg, aggregate_k_gradients,
                dl, val_dl, test_dl, n_incr, val_len, test_len>>
epochVars == <<te_pc, epochs, epoch, batch, grad_pending, step_log, scaler,
               te_error, using_dist, backward_log, grad_synced>>

memberVars == <<m_pc, is_ensemble, average_ensemble, boosting_lr, boosting_n_iters,
                i, output_dict, test_targets, ensembling_acc, acc_file, trained,
                current_outs, boosting_acc>>

prefixVars == <<p_pc, do_concat, prefix_embedding, prefix_y_embedding, prefix_size,
                n_freeze, prefix_weights_l, ec, before, p_err>>

constructVars == <<c_pc, c_args, c_result>>

datasetVars == <<d_pc, ds, fs, last_call, ds_before, fs_before, read_ds, n_encode,
                 n_populated, fresh, n_calls>>

subsetVars == <<sub_pc, ssm, sub_in, sub_out, n_fit, fit_support, n_subset_calls,
                subset_budget>>

tabdsVars == <<t_pc, t_args, t_result>>

runVars == <<interrupts, run_error>>

runLoopVars == <<r_pc, r_cfg, r_epoch, r_train_epochs, r_nc_bound, r_logs,
                 r_callbacks, r_error, r_result>>

serializeVars == <<ms_pc, ms_arg, ms_out, ms_again>>

boostVars == <<gb_pc, gb_cfg, gb_member, gb_epoch, gb_batch, gradient_dict,
               prior_grad_dict, blend_log, last_backward>>

baggingVars == <<bag_pc, bag_cfg, dl_backup, bag_i, bag_error>>

callbackVars == <<cb_pc, cb_config, save_every_k, my_callback, cb_epochs,
                  last_saved_epoch, checkpoints, n_invoked, cb_left>>

returnVars == <<rv_pc, rv_cfg, rv_member, rv_epoch, total_loss,
                total_positional_losses, loop_locals, rv_result>>

vars == <<loaderVars, epochVars, memberVars, prefixVars, constructVars,
          datasetVars,
          subsetVars,
          tabdsVars,
          runVars,
          runLoopVars,
          serializeVars,
          boostVars,
          baggingVars,
          callbackVars,
          returnVars>>

NoLoader == [n |-> 0, batch_size |-> 0, drop_last |-> FALSE]

(***************************************************************************)
(* torch.utils.data.DataLoader(ds, batch_size, drop_last): its length is   *)
(* the number of batches of one epoch.                                     *)
(***************************************************************************)
DataLoader(n, batch_size, drop_last) ==
    [n |-> n, batch_size |-> batch_size, drop_last |-> drop_last]

LenDlKeepLast(d) == (d.n + d.batch_size - 1) \div d.batch_size

LenDl(d) ==
    IF d.drop_last THEN d.n \div d.batch_size
    ELSE (d.n + d.batch_size - 1) \div d.batch_size

(***************************************************************************)
(* train.py 89-105.                                                        *)
(***************************************************************************)
LoaderInit ==
    /\ l_pc = "make_dl"
    /\ train_len \in 0..MaxN
    /\ bptt \in 1..MaxBptt
    /\ bptt_arg = bptt
    /\ aggregate_k_gradients \in 1..MaxK
    /\ dl = NoLoader
    /\ val_dl = NoLoader
    /\ test_dl = NoLoader
    /\ n_incr = 0
    /\ val_len \in 0..MaxEval
    /\ test_len \in 0..MaxEval

LoaderIdle ==
    /\ l_pc = "idle"
    /\ train_len = 0
    /\ bptt = 1
    /\ bptt_arg = 1
    /\ aggregate_k_gradients = 1
    /\ dl = NoLoader
    /\ val_dl = NoLoader
    /\ test_dl = NoLoader
    /\ n_incr = 0
    /\ val_len = 0
    /\ test_len = 0

\* lines 89-92
MakeTrainLoader ==
    /\ l_pc = "make_dl"
    /\ dl' = DataLoader(train_len, bptt, TRUE)
    /\ l_pc' = "while"
    /\ UNCHANGED <<train_len, bptt, bptt_arg, aggregate_k_gradients,
                   val_dl, test_dl, n_incr, val_len, test_len>>

\* lines 93-97: one pass of the while loop
InflateWindow ==
    /\ l_pc = "while"
    /\ LenDl(dl) % aggregate_k_gradients # 0
    /\ bptt' = bptt + 1
    /\ dl' = DataLoader(train_len, bptt + 1, TRUE)
    /\ n_incr' = n_incr + 1
    /\ UNCHANGED <<l_pc, train_len, bptt_arg, aggregate_k_gradients,
                   val_dl, test_dl, val_len, test_len>>

\* lines 93, 98-105: the loop ends, the evaluation loaders are built
MakeEvalLoaders ==
    /\ l_pc = "while"
    /\ LenDl(dl) % aggregate_k_gradients = 0
    /\ val_dl' = DataLoader(val_len, bptt, FALSE)
    /\ test_dl' = DataLoader(test_len, bptt, FALSE)
    /\ l_pc' = "done"
    /\ UNCHANGED <<train_len, bptt, bptt_arg, aggregate_k_gradients, dl, n_incr,
                   val_len, test_len>>

(***************************************************************************)
(* train_epoch (train.py 221-361) as the epoch loop of train_test_loop     *)
(* (train.py 440-445) calls it.  grad_pending is the state of the          *)
(* parameters' .grad: backward adds one micro-batch gradient to it,        *)
(* optimizer.zero_grad() clears it.  Nothing else in train() touches it.   *)
(***************************************************************************)
EpochInit ==
    /\ te_pc = "call"
    /\ epochs \in 1..MaxEpochs
    /\ epoch = 1
    /\ batch = 0
    /\ grad_pending = 0
    /\ step_log = <<>>
    \* line 158: GradScaler() if train_mixed_precision else None
    /\ scaler \in {"None", "READY"}
    /\ te_error = "none"
    /\ using_dist \in BOOLEAN
    /\ backward_log = <<>>
    /\ grad_synced = TRUE

EpochIdle ==
    /\ te_pc = "idle"
    /\ epochs = 1
    /\ epoch = 1
    /\ batch = 0
    /\ grad_pending = 0
    /\ step_log = <<>>
    /\ scaler = "None"
    /\ te_error = "none"
    /\ using_dist = FALSE
    /\ backward_log = <<>>
    /\ grad_synced = TRUE

\* the loader train_epoch iterates: any loader train() can have built,
\* the inflated one of lines 90-97 or a per-member one of lines 563-566
EpochLoaderInit ==
    /\ l_pc = "done"
    /\ train_len \in 0..MaxN
    /\ bptt \in 1..MaxBptt
    /\ bptt_arg = bptt
    /\ aggregate_k_gradients \in 1..MaxK
    /\ dl = DataLoader(train_len, bptt, TRUE)
    /\ val_dl = DataLoader(0, bptt, FALSE)
    /\ test_dl = DataLoader(0, bptt, FALSE)
    /\ n_incr = 0
    /\ val_len = 0
    /\ test_len = 0

\* line 324
AtBoundaryFirst(b) == b % aggregate_k_gradients = 0

AtBoundary(b) == b % aggregate_k_gradients = aggregate_k_gradients - 1

\* a context that suppresses the reduction on every batch
NoSyncAlways(b) == using_dist

\* lines 239-242: cm is model.no_sync() on the batches that are no boundary
NoSync(b) == using_dist /\ ~AtBoundary(b)

\* lines 222-232: the call, up to the assertion of line 231
TrainEpochCall ==
    /\ te_pc = "call"
    /\ batch' = 0
    /\ step_log' = <<>>
    /\ backward_log' = <<>>
    /\ te_pc' = IF LenDl(dl) % aggregate_k_gradients = 0 THEN "batch"
                ELSE "assert_failed"
    /\ te_error' = IF LenDl(dl) % aggregate_k_gradients = 0 THEN te_error
                   ELSE "AssertionError"
    /\ UNCHANGED <<epochs, epoch, grad_pending, scaler, using_dist, grad_synced>>

\* lines 233-349: one pass of the batch loop: forward and backward under cm
\* (lines 239-322), and at a boundary lines 324-335: unscale_, clip, the
\* optimizer step inside try/except (it may raise, ok = FALSE), zero_grad.
\* GradScaler.unscale_ raises unless the optimizer's stage is READY; step()
\* leaves it UNSCALED when the optimizer raises, update() makes it READY.
TrainBatch ==
    /\ te_pc = "batch"
    /\ batch < LenDl(dl)
    /\ backward_log' = Append(backward_log,
                              [batch |-> batch, no_sync |-> NoSync(batch)])
    /\ IF ~AtBoundary(batch)
       THEN /\ grad_pending' = grad_pending + 1
            /\ grad_synced' = ~NoSync(batch)
            /\ batch' = batch + 1
            /\ UNCHANGED <<step_log, scaler, te_pc, te_error>>
       ELSE IF scaler \notin {"None", "READY"}
       THEN \* line 325 raises, outside the try
            /\ grad_pending' = grad_pending + 1
            /\ grad_synced' = ~NoSync(batch)
            /\ te_pc' = "raised"
            /\ te_error' = "RuntimeError"
            /\ UNCHANGED <<step_log, scaler, batch>>
       ELSE \E ok \in BOOLEAN :
               /\ step_log' = Append(step_log,
                     [batch |-> batch, accumulated |-> grad_pending + 1,
                      ok |-> ok, synced |-> ~NoSync(batch)])
               /\ scaler' = IF scaler = "None" THEN "None"
                            ELSE IF ok THEN "READY" ELSE "UNSCALED"
               \* lines 333-335: the bare except passes over whatever the
               \* step raised, then zero_grad
               /\ grad_pending' = 0
               /\ grad_synced' = TRUE
               /\ batch' = batch + 1
               /\ UNCHANGED <<te_pc, te_error>>
    /\ UNCHANGED <<epochs, epoch, using_dist>>

\* lines 356-361 and the for loop of line 440.  After a loop of no batch the
\* return statement raises: 0. / 0 at line 359 (ZeroDivisionError), or under
\* boosting the read of time_to_get_batch, assigned only inside the loop
\* (UnboundLocalError)
TrainEpochReturn ==
    /\ te_pc = "batch"
    /\ batch = LenDl(dl)
    /\ IF LenDl(dl) = 0
       THEN /\ te_pc' = "raised"
            /\ te_error' \in {"ZeroDivisionError", "UnboundLocalError"}
       ELSE /\ te_pc' = "returned"
            /\ UNCHANGED te_error
    /\ UNCHANGED <<epochs, epoch, batch, grad_pending, step_log, scaler,
                   using_dist, backward_log, grad_synced>>

NextEpoch ==
    /\ te_pc = "returned"
    /\ IF epoch < epochs
       THEN /\ epoch' = epoch + 1
            /\ te_pc' = "call"
       ELSE /\ te_pc' = "done"
            /\ UNCHANGED epoch
    /\ UNCHANGED <<epochs, batch, grad_pending, step_log, scaler, te_error,
                   using_dist, backward_log, grad_synced>>

(***************************************************************************)
(* Tensors.  An output tensor has one row of logits per validation sample; *)
(* a tensor is a tuple of rows, a row a tuple of numbers.  The combined    *)
(* output is a tensor over a denominator: num / den elementwise (den is    *)
(* i + 1 after the division of line 602, otherwise 1).                     *)
(***************************************************************************)
Rows == {<<1, 0>>, <<0, 1>>, <<0, 0>>}

Tensors == Rows \X Rows

TargetChoices == {<<1, 2>>, <<2, 2>>}

TAdd(a, b) == [r \in DOMAIN a |-> [c \in DOMAIN a[r] |-> a[r][c] + b[r][c]]]

\* torch.mul(s, a)
TMul(s, a) == [r \in DOMAIN a |-> [c \in DOMAIN a[r] |-> s * a[r][c]]]

\* torch.zeros_like(a)
ZerosLike(a) == [r \in DOMAIN a |-> [c \in DOMAIN a[r] |-> 0]]

\* torch.max(t, 1)[1] of one row: the index of the first maximal value
ArgMax(row) ==
    CHOOSE c \in DOMAIN row :
        /\ \A d \in DOMAIN row : row[d] <= row[c]
        /\ \A d \in DOMAIN row : d < c => row[d] < row[c]

\* np.round(correct / total, 3), in thousandths
Round3(correct, total) == (2000 * correct + total) \div (2 * total)

\* lines 609-612 (and real_data_eval, lines 211-218): the share of rows whose
\* first maximal logit is the target
Accuracy(outs, targets) ==
    Round3(Cardinality({r \in DOMAIN outs : ArgMax(outs[r]) = targets[r]}),
           Len(targets))

\* um.ece / um.tace of the uncertainty_metrics library: functions of the
\* labels and the probabilities, kept as terms
um_ece(labels_np, probs_np) == <<"ece", labels_np, probs_np>>

um_tace(labels_np, probs_np) == <<"tace", labels_np, probs_np>>

\* lines 426-434; probs_np and labels_np are the variables of train() the
\* closure reads
update_ensemble_acc(acc, labels_np, probs_np) ==
    [accuracy |-> acc,
     ece |-> um_ece(labels_np, probs_np),
     tace |-> um_tace(labels_np, probs_np)]

RECURSIVE SumScaled(_, _, _, _)
\* the loop of lines 606-608 from member j to member last, added to acc
SumScaled(acc, od, j, last) ==
    IF j > last THEN acc
    ELSE SumScaled(TAdd(acc, TMul(boosting_lr, od[j])), od, j + 1, last)

RECURSIVE SumPlain(_, _, _, _)
\* the loop of lines 600-601
SumPlain(acc, od, j, last) ==
    IF j > last THEN acc
    ELSE SumPlain(TAdd(acc, od[j]), od, j + 1, last)

\* a test that keeps a member of equal accuracy
NotImprovedStrict(acc, prev) == acc < prev

\* a loop that accepts every member
NotImprovedNever(acc, prev) == FALSE

\* line 615
NotImproved(acc, prev) == acc <= prev

(***************************************************************************)
(* train.py 552-633: the first member, the ensembling loop, the return.    *)
(***************************************************************************)
MemberInit ==
    /\ m_pc = "member0"
    /\ is_ensemble \in BOOLEAN
    /\ average_ensemble \in BOOLEAN
    /\ boosting_lr \in 1..MaxLr
    /\ boosting_n_iters \in 1..MaxIters
    /\ i = 0
    /\ output_dict = <<>>
    /\ test_targets = <<>>
    /\ ensembling_acc = <<>>
    /\ acc_file = "absent"
    /\ trained = <<>>
    /\ current_outs = <<>>
    /\ boosting_acc = <<>>

MemberIdle ==
    /\ m_pc = "idle"
    /\ is_ensemble = FALSE
    /\ average_ensemble = FALSE
    /\ boosting_lr = 1
    /\ boosting_n_iters = 1
    /\ i = 0
    /\ output_dict = <<>>
    /\ test_targets = <<>>
    /\ ensembling_acc = <<>>
    /\ acc_file = "absent"
    /\ trained = <<>>
    /\ current_outs = <<>>
    /\ boosting_acc = <<>>

\* lines 560-578: train_test_loop returns the validation output o, the
\* targets t and a results_dict whose val_score is the accuracy of o
TrainMember0 ==
    /\ m_pc = "member0"
    /\ \E o \in Tensors, t \in TargetChoices :
         LET val_score == Accuracy(o, t)
             acc == IF is_ensemble
                    THEN (0 :> update_ensemble_acc(val_score, t, [num |-> o, den |-> 1]))
                    ELSE <<>>
         IN /\ output_dict' = (0 :> o)
            /\ trained' = (0 :> o)
            /\ test_targets' = t
            /\ ensembling_acc' = acc
            /\ acc_file' = acc
    /\ m_pc' = "ensemble"
    /\ i' = 0
    /\ UNCHANGED <<is_ensemble, average_ensemble, boosting_lr, boosting_n_iters,
                   current_outs, boosting_acc>>

\* lines 585-623: one pass of the ensembling loop, for member n
EnsembleIteration ==
    /\ m_pc = "ensemble"
    /\ is_ensemble
    /\ i + 1 < boosting_n_iters
    /\ \E o \in Tensors :
         LET n == i + 1
             od1 == output_dict @@ (n :> o)
             \* lines 598-608; in the additive branch current_outs is
             \* output_dict[0] itself (line 605) and += adds in place
             outs == IF average_ensemble
                     THEN SumPlain(ZerosLike(od1[0]), od1, 0, n)
                     ELSE SumScaled(od1[0], od1, 1, n)
             den == IF average_ensemble THEN n + 1 ELSE 1
             od2 == IF average_ensemble THEN od1
                    ELSE [od1 EXCEPT ![0] = outs]
             acc == Accuracy(outs, test_targets)
             probs_np == [num |-> outs, den |-> den]
             rejected == NotImproved(acc, ensembling_acc[n - 1].accuracy)
         IN /\ i' = n
            /\ trained' = trained @@ (n :> o)
            /\ current_outs' = current_outs @@ (n :> probs_np)
            /\ boosting_acc' = boosting_acc @@ (n :> acc)
            /\ IF rejected
               THEN /\ output_dict' = [od2 EXCEPT ![n] = ZerosLike(od2[n])]
                    /\ ensembling_acc' = ensembling_acc @@ (n :> ensembling_acc[n - 1])
               ELSE /\ output_dict' = od2
                    /\ ensembling_acc' = ensembling_acc @@
                          (n :> update_ensemble_acc(acc, test_targets, probs_np))
    /\ UNCHANGED <<m_pc, is_ensemble, average_ensemble, boosting_lr,
                   boosting_n_iters, test_targets, acc_file>>

\* lines 583, 624-633: the loop is over (or there is none)
FinishTrain ==
    /\ m_pc = "ensemble"
    /\ ~is_ensemble \/ i + 1 >= boosting_n_iters
    /\ acc_file' = IF is_ensemble THEN ensembling_acc ELSE acc_file
    /\ m_pc' = "returned"
    /\ UNCHANGED <<is_ensemble, average_ensemble, boosting_lr, boosting_n_iters,
                   i, output_dict, test_targets, ensembling_acc, trained,
                   current_outs, boosting_acc>>

(***************************************************************************)
(* The prefix controller, train.py 363-424 and 463-478.  A prefix          *)
(* embedding is a tuple of rows; row <<o, r>> is row r of the prefix       *)
(* member o trained (o = 0: the current member).  A method name is the     *)
(* tuple of its parts between "-".                                         *)
(***************************************************************************)
Methods ==
    { <<"duplicate">>,
      <<"rand", "init", "1">>,
      <<"rand", "init", "2">>,
      <<"rand", "init", "3">>,
      <<"rand", "init", "size", "ctl", "2">>,
      <<"rand", "init", "size", "ctl", "3">>,
      <<"rand", "init", "size", "ctl", "perm", "2">>,
      <<"rand", "init", "size", "ctl", "perm", "3">>,
      <<"rand", "init", "2", "size", "ctl">>,
      <<"concat">> }

\* method.startswith("rand-init")
StartsWithRandInit(method) ==
    Len(method) >= 2 /\ method[1] = "rand" /\ method[2] = "init"

\* "size-ctl" in method
HasSizeCtl(method) ==
    \E j \in 1..(Len(method) - 1) : method[j] = "size" /\ method[j + 1] = "ctl"

\* "perm" in method
HasPerm(method) == \E j \in 1..Len(method) : method[j] = "perm"

\* int(s): defined on numerals only
IsNumeral(tok) == tok \in {"1", "2", "3"}

IntOf(tok) == CASE tok = "1" -> 1 [] tok = "2" -> 2 [] tok = "3" -> 3

\* a cap at the second argument less one
MinCapBelow(a, b) == IF a < b THEN a ELSE b - 1

Min(a, b) == IF a <= b THEN a ELSE b

PrefixOf(owner, size) == [r \in 1..size |-> <<owner, r>>]

YLabelsOf(owner, size) == [r \in 1..size |-> <<"y", owner, r>>]

RECURSIVE Cat(_)
\* torch.cat(list, dim=0)
Cat(list) == IF list = <<>> THEN <<>> ELSE Head(list) \o Cat(Tail(list))

\* t[sel] for a tuple sel of 0-based row indices
Index(t, sel) == [j \in 1..Len(sel) |-> t[sel[j] + 1]]

\* torch.randperm(n)[:size]: any size distinct indices of 0..n-1, in any order
RandPermHeads(n, size) ==
    {q \in [1..Min(size, n) -> 0..(n - 1)] :
        \A a, b \in 1..Min(size, n) : a # b => q[a] # q[b]}

\* torch.arange(a, a + len)
Arange(a, len) == [j \in 1..len |-> a + j - 1]

NoEc == [made |-> FALSE]

PrefixInit ==
    /\ p_pc = "eval"
    /\ do_concat \in Methods
    /\ \E size \in 1..MaxPrefix, saved \in 0..MaxSaved :
         /\ prefix_embedding = PrefixOf(0, size)
         /\ prefix_y_embedding = YLabelsOf(0, size)
         /\ prefix_size = size
         /\ prefix_weights_l =
              [j \in 1..saved |-> [prefix_weights |-> PrefixOf(j, size),
                                   prefix_y_labels |-> YLabelsOf(j, size)]]
    /\ n_freeze = 1
    /\ ec = NoEc
    /\ before = NoEc
    /\ p_err = "none"

PrefixIdle ==
    /\ p_pc = "idle"
    /\ do_concat = <<>>
    /\ prefix_embedding = <<>>
    /\ prefix_y_embedding = <<>>
    /\ prefix_size = 0
    /\ prefix_weights_l = <<>>
    /\ n_freeze = 0
    /\ ec = NoEc
    /\ before = NoEc
    /\ p_err = "none"

\* line 467: EmbeddingConcatenator(t_model, do_concat, prefix_weights_l) keeps
\* the model's prefix tensor, y labels and size, and the saved prefixes
MakeConcatenator ==
    /\ p_pc = "eval"
    /\ ec' = [made |-> TRUE,
              original_embedding |-> prefix_embedding,
              original_y_embedding |-> prefix_y_embedding,
              original_prefix_size |-> prefix_size,
              prefix_weights |-> prefix_weights_l,
              concatenated_embedding |-> <<>>,
              concatenated_y_embedding |-> <<>>,
              prefix_size |-> prefix_size]
    /\ before' = [made |-> TRUE, embedding |-> prefix_embedding,
                  y_embedding |-> prefix_y_embedding, size |-> prefix_size,
                  n_freeze |-> n_freeze]
    /\ p_pc' = "made"
    /\ UNCHANGED <<do_concat, prefix_embedding, prefix_y_embedding, prefix_size,
                   n_freeze, prefix_weights_l, p_err>>

\* lines 399-402: the model takes the concatenated prefix
Install(e) ==
    /\ ec' = e
    /\ prefix_embedding' = e.concatenated_embedding
    /\ prefix_y_embedding' = e.concatenated_y_embedding
    /\ prefix_size' = e.prefix_size
    /\ p_pc' = "concatenated"
    /\ p_err' = "none"

Raise(err) ==
    /\ p_pc' = "raised"
    /\ p_err' = err
    /\ UNCHANGED <<ec, prefix_embedding, prefix_y_embedding, prefix_size>>

\* lines 363-402
ConcatEmbedding ==
    /\ p_pc = "made"
    /\ LET method == do_concat IN
       IF method = <<"duplicate">>
       THEN Install([ec EXCEPT
                !.concatenated_embedding = Cat(<<ec.original_embedding, ec.original_embedding>>),
                !.concatenated_y_embedding = Cat(<<ec.original_y_embedding, ec.original_y_embedding>>),
                !.prefix_size = ec.original_prefix_size * 2])
       ELSE IF StartsWithRandInit(method)
       THEN IF ~IsNumeral(method[Len(method)])
            THEN Raise("ValueError")
            ELSE
            LET num_to_concat == Min(IntOf(method[Len(method)]), Len(ec.prefix_weights) + 1)
                cat_emb == Cat(<<ec.original_embedding>> \o
                               [j \in 1..(num_to_concat - 1) |-> ec.prefix_weights[j].prefix_weights])
                cat_y == Cat(<<ec.original_y_embedding>> \o
                             [j \in 1..(num_to_concat - 1) |-> ec.prefix_weights[j].prefix_y_labels])
            IN IF num_to_concat = 1
               THEN Install([ec EXCEPT
                        !.concatenated_embedding = ec.original_embedding,
                        !.concatenated_y_embedding = ec.original_y_embedding,
                        !.prefix_size = ec.original_prefix_size])
               ELSE IF HasSizeCtl(method)
               THEN LET total_emb_size == ec.original_prefix_size
                        emb_size == total_emb_size \div num_to_concat
                        orig_emb_size == Len(ec.original_embedding)
                        start_pos == [j \in 1..num_to_concat |-> (j - 1) * orig_emb_size]
                        slices == Cat([j \in 1..num_to_concat |-> Arange(start_pos[j], emb_size)])
                    IN \E sel \in IF HasPerm(method)
                                  THEN RandPermHeads(Len(cat_emb), ec.original_prefix_size)
                                  ELSE {slices} :
                          Install([ec EXCEPT
                              !.concatenated_embedding = Index(cat_emb, sel),
                              !.concatenated_y_embedding = Index(cat_y, sel),
                              !.prefix_size = Len(sel)])
               ELSE Install([ec EXCEPT
                        !.concatenated_embedding = cat_emb,
                        !.concatenated_y_embedding = cat_y,
                        !.prefix_size = ec.original_prefix_size * num_to_concat])
       ELSE Raise("NotImplementedError")
    /\ UNCHANGED <<do_concat, n_freeze, prefix_weights_l, before>>

\* a restore that leaves model.prefix_size as the concatenation set it
RestoreEmbeddingKeepSize ==
    /\ p_pc = "concatenated"
    /\ prefix_embedding' = ec.original_embedding
    /\ prefix_y_embedding' = ec.original_y_embedding
    /\ n_freeze' = n_freeze + 1
    /\ p_pc' = "restored"
    /\ UNCHANGED <<do_concat, prefix_size, prefix_weights_l, ec, before, p_err>>

\* lines 404-409 (called at line 473, after the two evaluations of 469-471,
\* which run under torch.no_grad() and leave the prefix alone)
RestoreEmbedding ==
    /\ p_pc = "concatenated"
    /\ prefix_embedding' = ec.original_embedding
    /\ prefix_y_embedding' = ec.original_y_embedding
    /\ prefix_size' = ec.original_prefix_size
    /\ n_freeze' = n_freeze + 1
    /\ p_pc' = "restored"
    /\ UNCHANGED <<do_concat, prefix_weights_l, ec, before, p_err>>

(***************************************************************************)
(* Python values of real.py.  A value that may be None, a list or an array *)
(* is a tagged record.  An array has a dtype, a shape and its data.        *)
(***************************************************************************)
PyNone == [t |-> "None"]

PyInt(n) == [t |-> "int", v |-> n]

PyStr(x) == [t |-> "str", v |-> x]

PyList(q) == [t |-> "list", v |-> q]

NdArray(dtype, shape, data) ==
    [t |-> "ndarray", dtype |-> dtype, shape |-> shape, data |-> data]

RECURSIVE SeqMax(_)
\* max(q) of a non-empty list
SeqMax(q) ==
    IF Len(q) = 1 THEN q[1]
    ELSE LET r == SeqMax(Tail(q)) IN IF q[1] >= r THEN q[1] ELSE r

(***************************************************************************)
(* TabularDataset.__init__, real.py 44-118: the checks in the order of the *)
(* code; the first that fails raises.                                      *)
(***************************************************************************)
\* a docstring reading of the class counts: 2 for binary (line 64)
NumClassesOkDocstring(target_type, num_classes) ==
    CASE target_type = "regression" -> num_classes = 1
      [] target_type = "binary" -> num_classes = 2
      [] target_type = "classification" -> num_classes > 2
      [] OTHER -> TRUE

\* lines 101-106
NumClassesOk(target_type, num_classes) ==
    CASE target_type = "regression" -> num_classes = 1
      [] target_type = "binary" -> num_classes = 1
      [] target_type = "classification" -> num_classes > 2
      [] OTHER -> TRUE

Rejected_(err) == [raised |-> err, obj |-> PyNone]

TabularDataset(a) ==
    \* lines 72-74: X.shape[0], y.shape[0] of a 0-d array raise IndexError
    IF Len(a.X.shape) = 0 \/ Len(a.y.shape) = 0 THEN Rejected_("IndexError")
    ELSE IF a.X.shape[1] # a.y.shape[1] THEN Rejected_("AssertionError")
    \* lines 75-76
    ELSE IF Len(a.X.shape) # 2 THEN Rejected_("AssertionError")
    ELSE IF Len(a.y.shape) # 1 THEN Rejected_("AssertionError")
    \* lines 78-86
    ELSE IF a.num_instances # PyNone /\ a.X.shape[1] # a.num_instances.v
         THEN Rejected_("AssertionError")
    ELSE IF a.num_instances # PyNone /\ a.y.shape # <<a.num_instances.v>>
         THEN Rejected_("AssertionError")
    \* lines 88-93
    ELSE IF a.num_features # PyNone /\ a.X.shape[2] # a.num_features.v
         THEN Rejected_("AssertionError")
    ELSE
    LET num_instances == IF a.num_instances # PyNone THEN a.num_instances.v
                         ELSE a.X.shape[1]
        num_features == IF a.num_features # PyNone THEN a.num_features.v
                        ELSE a.X.shape[2]
    IN  \* lines 95-98
        IF Len(a.cat_idx) > 0 /\ ~(SeqMax(a.cat_idx) <= num_features - 1)
        THEN Rejected_("AssertionError")
        \* line 99
        ELSE IF a.target_type \notin {"regression", "classification", "binary"}
        THEN Rejected_("AssertionError")
        \* lines 101-106
        ELSE IF ~NumClassesOk(a.target_type, a.num_classes)
        THEN Rejected_("AssertionError")
        \* lines 108-118
        ELSE [raised |-> "none",
              obj |-> [t |-> "TabularDataset",
                       name |-> a.name, X |-> a.X, y |-> a.y,
                       cat_idx |-> a.cat_idx, target_type |-> a.target_type,
                       num_classes |-> a.num_classes,
                       num_features |-> num_features,
                       cat_dims |-> a.cat_dims,
                       num_instances |-> num_instances,
                       split_indeces |-> a.split_indeces,
                       split_source |-> a.split_source]]

\* shapes of no, one, two and three dimensions
ShapesX ==
    {<<>>} \cup {<<n>> : n \in 1..MaxDim}
           \cup {<<n, f>> : n \in 1..MaxDim, f \in 1..MaxDim}
           \cup {<<n, n, 1>> : n \in 1..MaxDim}

ShapesY ==
    {<<>>} \cup {<<n>> : n \in 1..MaxDim} \cup {<<n, 1>> : n \in 1..MaxDim}

CatIdxChoices ==
    {<<>>} \cup {<<c>> : c \in 0..MaxDim}
           \cup {<<c, d>> : c \in 0..MaxDim, d \in 1..MaxDim}

OptInts == {PyNone} \cup {PyInt(n) : n \in 1..MaxDim}

ConstructInit ==
    /\ c_pc = "args"
    /\ \E xs \in ShapesX, ys \in ShapesY, ci \in CatIdxChoices,
          tt \in {"regression", "binary", "classification", "multiclass"},
          nc \in 0..MaxClasses, nf \in OptInts, ni \in OptInts :
         c_args = [name |-> "d", X |-> NdArray("float64", xs, <<>>),
                   y |-> NdArray("int64", ys, <<>>), cat_idx |-> ci,
                   target_type |-> tt, num_classes |-> nc,
                   num_features |-> nf, num_instances |-> ni,
                   cat_dims |-> PyNone, split_indeces |-> PyNone,
                   split_source |-> PyNone]
    /\ c_result = Rejected_("not called")

ConstructIdle ==
    /\ c_pc = "idle"
    /\ c_args = PyNone
    /\ c_result = Rejected_("not called")

Construct ==
    /\ c_pc = "args"
    /\ c_result' = TabularDataset(c_args)
    /\ c_pc' = "done"
    /\ UNCHANGED c_args

(***************************************************************************)
(* sklearn's LabelEncoder.fit_transform: classes_ are the sorted distinct  *)
(* values, a value is replaced by its position among them.                 *)
(***************************************************************************)
Classes(col) == {col[r] : r \in 1..Len(col)}

LabelEncode(col) ==
    [r \in 1..Len(col) |-> Cardinality({c \in Classes(col) : c < col[r]})]

\* X[:, c], c counted from 0
Column(X, c) == [r \in 1..Len(X) |-> X[r][c + 1]]

\* X[:, c] = col
SetColumn(X, c, col) ==
    [r \in 1..Len(X) |-> [X[r] EXCEPT ![c + 1] = col[r]]]

InList(x, q) == \E j \in 1..Len(q) : q[j] = x

\* a guard that takes an empty list for "not set"
AlreadyEncodedTruthy(d) == d.cat_dims # PyNone /\ Len(d.cat_dims.v) > 0

\* line 135: not self.cat_dims is None
AlreadyEncoded(d) == d.cat_dims # PyNone

RECURSIVE EncodeFrom(_, _)
\* lines 142-148: the loop, from feature f on
EncodeFrom(d, f) ==
    IF f >= d.num_features THEN d
    ELSE IF Len(d.cat_idx) > 0 /\ InList(f, d.cat_idx)
    THEN LET col == Column(d.X.data, f)
             enc == LabelEncode(col)
         IN  EncodeFrom([d EXCEPT
                 !.X.data = SetColumn(d.X.data, f, enc),
                 !.cat_dims = PyList(Append(d.cat_dims.v,
                                            Cardinality(Classes(col))))],
                 f + 1)
    ELSE EncodeFrom(d, f + 1)

\* lines 133-148
cat_feature_encode(d) ==
    IF AlreadyEncoded(d) THEN [raised |-> "RuntimeError", obj |-> d]
    ELSE [raised |-> "none",
          obj |-> EncodeFrom([d EXCEPT !.cat_dims = PyList(<<>>)], 0)]

(***************************************************************************)
(* numpy's save / load and json's dump / load, as conversions.             *)
(***************************************************************************)
\* np.asanyarray: None becomes a 0-d object array, a list a 1-d one
AsArray(v) ==
    CASE v.t = "ndarray" -> v
      [] v.t = "None" -> NdArray("object", <<>>, <<v>>)
      [] v.t = "list" -> NdArray("object", <<Len(v.v)>>, v.v)

np_save(v) == [t |-> "npy", arr |-> AsArray(v)]

\* an object array is pickled and loads only with allow_pickle
np_load(f, allow_pickle) ==
    IF f.arr.dtype = "object" /\ ~allow_pickle
    THEN [raised |-> "ValueError", v |-> PyNone]
    ELSE [raised |-> "none", v |-> f.arr]

JsonOf(v) ==
    CASE v.t = "None" -> [j |-> "null"]
      [] v.t = "int" -> [j |-> "number", v |-> v.v]
      [] v.t = "str" -> [j |-> "string", v |-> v.v]
      [] v.t = "list" -> [j |-> "array", v |-> v.v]

PyOf(x) ==
    CASE x.j = "null" -> PyNone
      [] x.j = "number" -> PyInt(x.v)
      [] x.j = "string" -> PyStr(x.v)
      [] x.j = "array" -> PyList(x.v)

json_dump(m) == [t |-> "json", v |-> [k \in DOMAIN m |-> JsonOf(m[k])]]

json_load(f) == [k \in DOMAIN f.v |-> PyOf(f.v[k])]

\* lines 150-160
get_metadata(d) ==
    [name |-> PyStr(d.name),
     cat_idx |-> PyList(d.cat_idx),
     cat_dims |-> d.cat_dims,
     target_type |-> PyStr(d.target_type),
     num_classes |-> PyInt(d.num_classes),
     num_features |-> PyInt(d.num_features),
     num_instances |-> PyInt(d.num_instances),
     split_source |-> d.split_source]

(***************************************************************************)
(* The directory p: whether it exists, and its four artifacts.             *)
(***************************************************************************)
Absent == [t |-> "absent"]

NoDir == [exists |-> FALSE, X |-> Absent, y |-> Absent, split_indeces |-> Absent,
          metadata |-> Absent]

EmptyDir == [NoDir EXCEPT !.exists = TRUE]

\* Python's ~ on a bool: ~False is -1, ~True is -2
Invert(b) == -(IF b THEN 1 ELSE 0) - 1

Truthy(n) == n # 0

\* a mkdir that always tolerates an existing directory
MkdirExistOk(f, exist_ok) ==
    [raised |-> "none", fs |-> [f EXCEPT !.exists = TRUE]]

\* line 203: p.mkdir(parents=True, exist_ok=overwrite)
Mkdir(f, exist_ok) ==
    IF f.exists /\ ~exist_ok
    THEN [raised |-> "FileExistsError", fs |-> f]
    ELSE [raised |-> "none", fs |-> [f EXCEPT !.exists = TRUE]]

\* lines 205-216: the four artifacts of d
Artifacts(d) ==
    [exists |-> TRUE,
     X |-> np_save(d.X),
     y |-> np_save(d.y),
     split_indeces |-> np_save(d.split_indeces),
     metadata |-> json_dump(get_metadata(d))]

\* lines 196-216
write(d, f, overwrite) ==
    IF ~overwrite /\ ~Truthy(Invert(f.exists))
    THEN [raised |-> "AssertionError", fs |-> f]
    ELSE LET md == Mkdir(f, overwrite)
         IN  IF md.raised # "none" THEN md
             ELSE [raised |-> "none", fs |-> Artifacts(d)]

\* lines 162-194
read(f) ==
    IF \/ ~f.exists
       \/ f.X = Absent \/ f.y = Absent \/ f.metadata = Absent
       \/ f.split_indeces = Absent
    THEN [raised |-> "AssertionError", obj |-> PyNone]
    ELSE LET X == np_load(f.X, TRUE)
             y == np_load(f.y, FALSE)
             split_indeces == np_load(f.split_indeces, TRUE)
             kwargs == json_load(f.metadata)
         IN  IF X.raised # "none" THEN [raised |-> X.raised, obj |-> PyNone]
             ELSE IF y.raised # "none" THEN [raised |-> y.raised, obj |-> PyNone]
             ELSE IF split_indeces.raised # "none"
                  THEN [raised |-> split_indeces.raised, obj |-> PyNone]
             ELSE TabularDataset(
                     [name |-> kwargs.name.v,
                      X |-> X.v, y |-> y.v,
                      cat_idx |-> kwargs.cat_idx.v,
                      target_type |-> kwargs.target_type.v,
                      num_classes |-> kwargs.num_classes.v,
                      num_features |-> kwargs.num_features,
                      num_instances |-> kwargs.num_instances,
                      cat_dims |-> kwargs.cat_dims,
                      split_indeces |-> split_indeces.v,
                      split_source |-> kwargs.split_source])

\* feature matrices of two rows: values a LabelEncoder changes, and not
XChoices ==
    {<<<<3, 1>>, <<5, 1>>>>, <<<<0, 4>>, <<1, 4>>>>, <<<<2>>, <<2>>>>}

ArrayOf(dtype, rows) == NdArray(dtype, <<Len(rows), Len(rows[1])>>, rows)

SplitChoices == {PyNone, PyList(<<[t |-> "dict", id |-> 0]>>)}

\* every dataset the constructor accepts from the choices above
Datasets ==
    {TabularDataset(a).obj : a \in
        {b \in [name : {"d"},
                X : {ArrayOf("float64", x) : x \in XChoices},
                y : {NdArray(dt, <<2>>, <<0, 1>>) : dt \in {"int64", "object"}},
                cat_idx : CatIdxChoices,
                target_type : {"regression", "binary", "classification"},
                num_classes : {1, MaxClasses},
                num_features : {PyNone},
                num_instances : {PyNone},
                cat_dims : {PyNone},
                split_indeces : SplitChoices,
                split_source : {PyNone, PyStr("openml")}] :
            TabularDataset(b).raised = "none"}}

\* what an earlier run left in p
StaleDataset ==
    TabularDataset([name |-> "old", X |-> ArrayOf("float64", <<<<9>>>>),
                    y |-> NdArray("int64", <<1>>, <<0>>), cat_idx |-> <<>>,
                    target_type |-> "regression", num_classes |-> 1,
                    num_features |-> PyNone, num_instances |-> PyNone,
                    cat_dims |-> PyNone,
                    split_indeces |-> PyList(<<[t |-> "dict", id |-> 9]>>),
                    split_source |-> PyNone]).obj

NoCall == [op |-> "none", overwrite |-> FALSE, raised |-> "none"]

DatasetInit ==
    /\ d_pc = "live"
    /\ ds \in Datasets
    /\ fs \in {NoDir, EmptyDir, Artifacts(StaleDataset)}
    /\ last_call = NoCall
    /\ ds_before = ds
    /\ fs_before = fs
    /\ read_ds = PyNone
    /\ n_encode = 0
    /\ n_populated = 0
    /\ fresh = FALSE
    /\ n_calls = 0

DatasetIdle ==
    /\ d_pc = "idle"
    /\ ds = PyNone
    /\ fs = NoDir
    /\ last_call = NoCall
    /\ ds_before = PyNone
    /\ fs_before = NoDir
    /\ read_ds = PyNone
    /\ n_encode = 0
    /\ n_populated = 0
    /\ fresh = FALSE
    /\ n_calls = 0

\* one call begins: the snapshots and the count
Called ==
    /\ d_pc = "live"
    /\ n_calls < MaxCalls
    /\ n_calls' = n_calls + 1
    /\ ds_before' = ds
    /\ fs_before' = fs
    /\ UNCHANGED d_pc

CatFeatureEncode ==
    /\ Called
    /\ LET r == cat_feature_encode(ds)
       IN  /\ ds' = r.obj
           /\ last_call' = [op |-> "encode", overwrite |-> FALSE, raised |-> r.raised]
           /\ n_populated' = IF r.raised = "none" THEN n_populated + 1
                             ELSE n_populated
           /\ fresh' = IF r.raised = "none" THEN FALSE ELSE fresh
    /\ n_encode' = n_encode + 1
    /\ UNCHANGED <<fs, read_ds>>

Write ==
    /\ Called
    /\ \E overwrite \in BOOLEAN :
         LET r == write(ds, fs, overwrite)
         IN  /\ fs' = r.fs
             /\ last_call' = [op |-> "write", overwrite |-> overwrite,
                         raised |-> r.raised]
             /\ fresh' = IF r.raised = "none" THEN TRUE ELSE fresh
    /\ UNCHANGED <<ds, read_ds, n_encode, n_populated>>

Read ==
    /\ Called
    /\ LET r == read(fs)
       IN  /\ read_ds' = r.obj
           /\ last_call' = [op |-> "read", overwrite |-> FALSE, raised |-> r.raised]
    /\ UNCHANGED <<ds, fs, n_encode, n_populated, fresh>>

(***************************************************************************)
(* SubsetMaker, real.py 218-323.  A matrix is known by the ids of its rows *)
(* and of its columns, in order: the cell at (r, c) is the cell (rows[r],  *)
(* cols[c]) of the data it was cut from.  y is known by the ids of its     *)
(* rows.                                                                   *)
(***************************************************************************)
Matrix(tag, n, f) == [tag |-> tag, rows |-> Arange(0, n), cols |-> Arange(0, f)]

Labels(tag, n) == [tag |-> tag, rows |-> Arange(0, n)]

\* q[idx], idx counted from 0
Take(q, idx) == [j \in 1..Len(idx) |-> q[idx[j] + 1]]

\* X[row_indices[:, None], feature_indices]
Cut(X, row_indices, feature_indices) ==
    [X EXCEPT !.rows = Take(X.rows, row_indices),
              !.cols = Take(X.cols, feature_indices)]

\* y[row_indices]
CutLabels(y, row_indices) == [y EXCEPT !.rows = Take(y.rows, row_indices)]

\* np.random.choice(n, k, replace=False): k distinct indices in any order
Choices(n, k) ==
    {q \in [1..k -> 0..(n - 1)] : \A a, b \in 1..k : a # b => q[a] # q[b]}

\* the columns a fitted SelectKBest keeps, ascending
Supports(n, k) ==
    {q \in [1..k -> 0..(n - 1)] : \A a, b \in 1..k : a < b => q[a] < q[b]}

\* lines 229-240; pick is the draw of np.random.choice
random_subset(sm, X, y, action, pick) ==
    LET row_indices == IF action = "rows" THEN pick ELSE Arange(0, Len(X.rows))
        feature_indices == IF action = "features" THEN pick
                           ELSE Arange(0, Len(X.cols))
    IN  [X |-> Cut(X, row_indices, feature_indices),
         y |-> CutLabels(y, row_indices)]

\* lines 242-251
first_subset(sm, X, y, action) ==
    LET row_indices == IF action = "rows" THEN Arange(0, sm.subset_rows)
                       ELSE Arange(0, Len(X.rows))
        feature_indices == IF action = "features"
                           THEN Arange(0, sm.subset_features)
                           ELSE Arange(0, Len(X.cols))
    IN  [X |-> Cut(X, row_indices, feature_indices),
         y |-> CutLabels(y, row_indices)]

SubsetRaise(err, sm, X, y) ==
    [raised |-> err, X |-> X, y |-> y, ssm |-> sm, fitted_now |-> FALSE]

SubsetReturn(sm, X, y, fitted_now) ==
    [raised |-> "none", X |-> X, y |-> y, ssm |-> sm, fitted_now |-> fitted_now]

\* SelectKBest.transform: the kept columns of an X as wide as the fitted one
Transform(sm, X, y) ==
    IF sm.feature_selector = PyNone
    THEN SubsetRaise("AttributeError", sm, X, y)
    ELSE IF ~sm.feature_selector.fitted
    THEN SubsetRaise("NotFittedError", sm, X, y)
    ELSE IF sm.feature_selector.n_features_in # Len(X.cols)
    THEN SubsetRaise("ValueError", sm, X, y)
    ELSE SubsetReturn(sm, Cut(X, Arange(0, Len(X.rows)),
                              sm.feature_selector.support), y, FALSE)

\* a selector that is fitted again on every "train" call
mutual_information_refit(sm, X, y, split, support, fit_ok) ==
    IF split \notin {"train", "val", "test"}
    THEN SubsetRaise("ValueError", sm, X, y)
    ELSE IF split = "train"
    THEN LET sel == [t |-> "SelectKBest", k |-> sm.subset_features,
                     fitted |-> fit_ok, n_features_in |-> Len(X.cols),
                     support |-> support]
             sm2 == [sm EXCEPT !.feature_selector = sel]
         IN  IF ~fit_ok
             THEN [SubsetRaise("ValueError", sm2, X, y)
                      EXCEPT !.fitted_now = TRUE]
             ELSE SubsetReturn(sm2, Cut(X, Arange(0, Len(X.rows)), support),
                               y, TRUE)
    ELSE Transform(sm, X, y)

\* lines 253-274; support is what the fit chooses, fit_ok whether it succeeds
mutual_information_subset(sm, X, y, split, support, fit_ok) ==
    IF split \notin {"train", "val", "test"}
    THEN SubsetRaise("ValueError", sm, X, y)
    ELSE IF split = "train" /\ sm.feature_selector = PyNone
    THEN LET sel == [t |-> "SelectKBest", k |-> sm.subset_features,
                     fitted |-> fit_ok, n_features_in |-> Len(X.cols),
                     support |-> support]
             sm2 == [sm EXCEPT !.feature_selector = sel]
         IN  IF ~fit_ok
             THEN [SubsetRaise("ValueError", sm2, X, y)
                      EXCEPT !.fitted_now = TRUE]
             ELSE SubsetReturn(sm2, Cut(X, Arange(0, Len(X.rows)), support),
                               y, TRUE)
    ELSE Transform(sm, X, y)

\* a test that also reduces to a count equal to the axis size
ReducesInclusive(size, count) == size >= count /\ count > 0

\* lines 296, 312: size > count > 0
Reduces(size, count) == size > count /\ count > 0

\* lines 296-311
SubsetFeatures(sm, X, y, split, pick, support, fit_ok) ==
    IF ~Reduces(Len(X.cols), sm.subset_features)
    THEN SubsetReturn(sm, X, y, FALSE)
    ELSE IF sm.subset_features_method = "random"
    THEN LET r == random_subset(sm, X, y, "features", pick)
         IN  SubsetReturn(sm, r.X, r.y, FALSE)
    ELSE IF sm.subset_features_method = "first"
    THEN LET r == first_subset(sm, X, y, "features")
         IN  SubsetReturn(sm, r.X, r.y, FALSE)
    ELSE IF sm.subset_features_method = "mutual_information"
    THEN mutual_information_subset(sm, X, y, split, support, fit_ok)
    ELSE SubsetRaise("ValueError", sm, X, y)

\* lines 312-321
SubsetRows(sm, X, y, pick) ==
    IF ~Reduces(Len(X.rows), sm.subset_rows)
    THEN SubsetReturn(sm, X, y, FALSE)
    ELSE IF sm.subset_rows_method = "random"
    THEN LET r == random_subset(sm, X, y, "rows", pick)
         IN  SubsetReturn(sm, r.X, r.y, FALSE)
    ELSE IF sm.subset_rows_method = "first"
    THEN LET r == first_subset(sm, X, y, "rows")
         IN  SubsetReturn(sm, r.X, r.y, FALSE)
    ELSE SubsetRaise("ValueError", sm, X, y)

\* lines 276-323
make_subset(sm, X, y, split, fpick, support, fit_ok, rpick) ==
    LET f == SubsetFeatures(sm, X, y, split, fpick, support, fit_ok)
    IN  IF f.raised # "none" THEN f
        ELSE LET r == SubsetRows(f.ssm, f.X, f.y, rpick)
             IN  [r EXCEPT !.fitted_now = f.fitted_now]

FeatureMethods == {"random", "first", "mutual_information", "pca"}

RowMethods == {"random", "first", "stratified"}

\* lines 219-227
SubsetMaker(subset_features, subset_rows, subset_features_method,
            subset_rows_method) ==
    [subset_features |-> subset_features,
     subset_rows |-> subset_rows,
     subset_features_method |-> subset_features_method,
     subset_rows_method |-> subset_rows_method,
     row_selector |-> PyNone,
     feature_selector |-> PyNone]

NoSubsetCall == [X |-> Matrix("none", 0, 0), y |-> Labels("none", 0),
                 split |-> "none"]

NoSubsetResult == SubsetRaise("not called", PyNone, NoSubsetCall.X, NoSubsetCall.y)

SubsetInit ==
    /\ sub_pc = "live"
    /\ \E sf \in 0..MaxAxis, sr \in 0..MaxRowAxis,
          fm \in FeatureMethods, rm \in RowMethods :
         /\ ssm = SubsetMaker(sf, sr, fm, rm)
         \* random and first keep nothing between calls: one call shows
         \* all they do; the selector is followed over several calls
         /\ subset_budget = IF fm = "mutual_information" THEN MaxSubsetCalls
                            ELSE 1
    /\ sub_in = NoSubsetCall
    /\ sub_out = NoSubsetResult
    /\ n_fit = 0
    /\ fit_support = <<>>
    /\ n_subset_calls = 0

SubsetIdle ==
    /\ sub_pc = "idle"
    /\ ssm = PyNone
    /\ sub_in = NoSubsetCall
    /\ sub_out = NoSubsetResult
    /\ n_fit = 0
    /\ fit_support = <<>>
    /\ n_subset_calls = 0
    /\ subset_budget = 0

\* the draws a call can make: one where the code draws, a fixed one elsewhere
Draws(draws, size, count) ==
    IF draws /\ Reduces(size, count) THEN Choices(size, count) ELSE {<<>>}

\* what a fit can choose, on the call that fits
FitDraws(sm, f, split) ==
    IF sm.subset_features_method = "mutual_information"
       /\ Reduces(f, sm.subset_features)
       /\ split = "train"
       /\ sm.feature_selector = PyNone
    THEN Supports(f, sm.subset_features) \X BOOLEAN
    ELSE {<<(<<>>), TRUE>>}

MakeSubset ==
    /\ sub_pc = "live"
    /\ n_subset_calls < subset_budget
    /\ \E n \in 1..MaxRowAxis, f \in 1..MaxAxis, split \in {"train", "val", "test"} :
       \E fpick \in Draws(ssm.subset_features_method = "random", f,
                          ssm.subset_features),
          rpick \in Draws(ssm.subset_rows_method = "random", n, ssm.subset_rows),
          fd \in FitDraws(ssm, f, split) :
       \E r \in {make_subset(ssm, Matrix(split, n, f), Labels(split, n), split,
                             fpick, fd[1], fd[2], rpick)} :
             /\ sub_in' = [X |-> Matrix(split, n, f), y |-> Labels(split, n),
                           split |-> split]
             /\ sub_out' = r
             /\ ssm' = r.ssm
             /\ n_fit' = IF r.fitted_now THEN n_fit + 1 ELSE n_fit
             /\ fit_support' = IF r.fitted_now /\ n_fit = 0
                               THEN r.ssm.feature_selector.support
                               ELSE fit_support
    /\ n_subset_calls' = n_subset_calls + 1
    /\ UNCHANGED <<sub_pc, subset_budget>>

(***************************************************************************)
(* TabDS.__init__, real.py 530-548.                                        *)
(***************************************************************************)
\* torch.zeros(n, k)
Zeros(n, k) == [r \in 1..n |-> [c \in 1..k |-> 0]]

\* torch.cat([A, B], dim=1)
CatColumns(A, B) == [r \in 1..Len(A) |-> A[r] \o B[r]]

\* lines 538-542: both tests read len(self.X.shape), the number of axes
TabDS(X, num_features) ==
    IF Len(X.shape) > num_features
    THEN [raised |-> "ValueError", X |-> PyNone]
    ELSE IF Len(X.shape) < num_features
    THEN \* torch.zeros refuses a negative size
         IF num_features - X.shape[2] < 0
         THEN [raised |-> "RuntimeError", X |-> PyNone]
         ELSE [raised |-> "none",
               X |-> NdArray(X.dtype, <<X.shape[1], num_features>>,
                             CatColumns(X.data,
                                        Zeros(X.shape[1],
                                              num_features - X.shape[2])))]
    ELSE [raised |-> "none", X |-> X]

\* every 0/1 matrix of n rows and f columns
Matrices(n, f) == [1..n -> [1..f -> {0, 1}]]

TabDSNotCalled == [raised |-> "not called", X |-> PyNone]

TabDSInit ==
    /\ t_pc = "args"
    /\ \E n \in 1..MaxRowAxis, f \in 1..MaxAxis, mf \in 1..(MaxAxis + 1) :
       \E x \in Matrices(n, f) :
         t_args = [X |-> NdArray("float32", <<n, f>>, x), num_features |-> mf]
    /\ t_result = TabDSNotCalled

TabDSIdle ==
    /\ t_pc = "idle"
    /\ t_args = PyNone
    /\ t_result = TabDSNotCalled

MakeTabDS ==
    /\ t_pc = "args"
    /\ t_result' = TabDS(t_args.X, t_args.num_features)
    /\ t_pc' = "done"
    /\ UNCHANGED t_args

(***************************************************************************)
(* KeyboardInterrupt in the member loop of train, train.py 560-633.  Only  *)
(* lines 560-578 are inside the try; the ensembling loop is not.           *)
(***************************************************************************)
NoInterrupt ==
    /\ interrupts = 0
    /\ run_error = "none"

\* where in lines 560-578 the interrupt lands
Member0Stages == {"training", "assigned", "recorded"}

\* lines 560-580: the interrupt arrives inside the try and is passed over
InterruptMember0 ==
    /\ m_pc = "member0"
    /\ interrupts < MaxInterrupts
    /\ interrupts' = interrupts + 1
    /\ \E stage \in Member0Stages, o \in Tensors, t \in TargetChoices :
         \* "training": inside train_test_loop, line 570 assigns nothing
         \* "assigned": after line 570, before line 574
         \* "recorded": after line 574, before the dump of line 576
         /\ output_dict' = IF stage = "training" THEN output_dict ELSE (0 :> o)
         /\ trained' = IF stage = "training" THEN trained ELSE (0 :> o)
         /\ test_targets' = IF stage = "training" THEN test_targets ELSE t
         /\ ensembling_acc' =
               IF stage = "recorded" /\ is_ensemble
               THEN (0 :> update_ensemble_acc(Accuracy(o, t), t,
                                              [num |-> o, den |-> 1]))
               ELSE ensembling_acc
         /\ m_pc' = IF stage = "recorded" THEN "ensemble" ELSE "interrupted"
    /\ i' = 0
    /\ UNCHANGED <<is_ensemble, average_ensemble, boosting_lr, boosting_n_iters,
                   acc_file, current_outs, boosting_acc, run_error>>

\* lines 585-615 after an interrupted member 0: the member is trained, then
\* output_dict[0] (599 / 605) or ensembling_acc[i-1] (615) is missing
IterationAfterInterrupt ==
    /\ m_pc = "interrupted"
    /\ is_ensemble
    /\ i + 1 < boosting_n_iters
    /\ \E o \in Tensors :
         LET n == i + 1
             od1 == output_dict @@ (n :> o)
         IN  /\ i' = n
             /\ trained' = trained @@ (n :> o)
             /\ IF 0 \notin DOMAIN output_dict
                THEN /\ output_dict' = od1
                     /\ UNCHANGED <<current_outs, boosting_acc>>
                ELSE LET outs == IF average_ensemble
                                 THEN SumPlain(ZerosLike(od1[0]), od1, 0, n)
                                 ELSE SumScaled(od1[0], od1, 1, n)
                         den == IF average_ensemble THEN n + 1 ELSE 1
                     IN  /\ output_dict' = IF average_ensemble THEN od1
                                           ELSE [od1 EXCEPT ![0] = outs]
                         /\ current_outs' = current_outs @@
                               (n :> [num |-> outs, den |-> den])
                         /\ boosting_acc' = boosting_acc @@
                               (n :> Accuracy(outs, test_targets))
    /\ m_pc' = "raised"
    /\ run_error' = "KeyError"
    /\ UNCHANGED <<is_ensemble, average_ensemble, boosting_lr, boosting_n_iters,
                   test_targets, ensembling_acc, acc_file, interrupts>>

\* lines 583, 624-633 after an interrupted member 0 with no iteration to run
FinishAfterInterrupt ==
    /\ m_pc = "interrupted"
    /\ ~is_ensemble \/ i + 1 >= boosting_n_iters
    /\ acc_file' = IF is_ensemble THEN ensembling_acc ELSE acc_file
    /\ m_pc' = "returned"
    /\ UNCHANGED <<is_ensemble, average_ensemble, boosting_lr, boosting_n_iters,
                   i, output_dict, test_targets, ensembling_acc, trained,
                   current_outs, boosting_acc, interrupts, run_error>>

\* lines 585-623: the interrupt arrives inside an ensembling iteration,
\* which no try encloses
InterruptIteration ==
    /\ m_pc = "ensemble"
    /\ is_ensemble
    /\ i + 1 < boosting_n_iters
    /\ interrupts < MaxInterrupts
    /\ interrupts' = interrupts + 1
    /\ m_pc' = "raised"
    /\ run_error' = "KeyboardInterrupt"
    /\ UNCHANGED <<is_ensemble, average_ensemble, boosting_lr, boosting_n_iters,
                   i, output_dict, test_targets, ensembling_acc, acc_file,
                   trained, current_outs, boosting_acc>>

(***************************************************************************)
(* One process of a real-data run: process_data cuts the data (real.py     *)
(* 418-455), train_test_loop runs the epochs (train.py 436-539), train     *)
(* returns (train.py 628-633).                                             *)
(***************************************************************************)
\* what concat_embedding raises for a method name, lines 366-398
ConcatOutcome(method) ==
    IF method = <<"duplicate">> THEN "none"
    ELSE IF StartsWithRandInit(method)
    THEN IF IsNumeral(method[Len(method)]) THEN "none" ELSE "ValueError"
    ELSE "NotImplementedError"

\* real.py 419-425: whether process_data makes a subset at all
SubsetWanted(c) ==
    /\ (c.subset_features > 0 \/ c.subset_rows > 0)
    /\ (c.subset_features < c.num_features \/ c.subset_rows < c.num_rows)

\* real.py 429-454: make_subset on the train split, then on val and test;
\* the draws of the random policy are the first indices
ProcessDataSubsets(c) ==
    LET sm == SubsetMaker(c.subset_features, c.subset_rows,
                          c.subset_features_method, c.subset_rows_method)
        fpick == Arange(0, c.subset_features)
        rpick == Arange(0, c.subset_rows)
        sup == Arange(0, c.subset_features)
        tr == make_subset(sm, Matrix("train", c.num_rows, c.num_features),
                          Labels("train", c.num_rows), "train",
                          fpick, sup, TRUE, rpick)
    IN  IF tr.raised # "none" THEN tr.raised
        ELSE IF ~(c.subset_features < c.num_features) THEN "none"
        ELSE LET va == make_subset(tr.ssm,
                          Matrix("val", c.num_rows, c.num_features),
                          Labels("val", c.num_rows), "val",
                          fpick, sup, TRUE, rpick)
             IN  IF va.raised # "none" THEN va.raised
                 ELSE make_subset(va.ssm,
                          Matrix("test", c.num_rows, c.num_features),
                          Labels("test", c.num_rows), "test",
                          fpick, sup, TRUE, rpick).raised

RunLoopInit ==
    /\ r_pc = "prepare"
    /\ r_cfg \in [subset_features : 0..MaxRowAxis,
                  subset_rows : 0..MaxRowAxis,
                  subset_features_method : FeatureMethods,
                  subset_rows_method : RowMethods,
                  num_features : {MaxRowAxis},
                  num_rows : {MaxRowAxis},
                  do_concat : Methods \cup {<<>>},
                  do_prompt_tuning : BOOLEAN,
                  verbose : BOOLEAN,
                  validation_period : 1..MaxPeriod,
                  epochs : 1..MaxEpochs,
                  has_callback : BOOLEAN,
                  rank : 0..MaxRank]
    /\ r_epoch = 1
    /\ r_train_epochs = 0
    /\ r_nc_bound = FALSE
    /\ r_logs = {}
    /\ r_callbacks = {}
    /\ r_error = "none"
    /\ r_result = "not returned"

RunLoopIdle ==
    /\ r_pc = "idle"
    /\ r_cfg = PyNone
    /\ r_epoch = 1
    /\ r_train_epochs = 0
    /\ r_nc_bound = FALSE
    /\ r_logs = {}
    /\ r_callbacks = {}
    /\ r_error = "none"
    /\ r_result = "not returned"

\* real.py 418-455
ProcessData ==
    /\ r_pc = "prepare"
    /\ LET err == IF SubsetWanted(r_cfg) THEN ProcessDataSubsets(r_cfg)
                  ELSE "none"
       IN  /\ r_error' = err
           /\ r_pc' = IF err = "none" THEN "epoch" ELSE "raised"
    /\ UNCHANGED <<r_cfg, r_epoch, r_train_epochs, r_nc_bound, r_logs,
                   r_callbacks, r_result>>

\* train.py 491, 508: the log is written under verbose
WritesLog(c) == c.verbose

\* train.py 449-450
ValidationEpoch(c, e) == (e - 1) % c.validation_period = 0

\* train.py 440-537: one pass of the for loop of train_test_loop
TrainTestLoopPass ==
    /\ r_pc = "epoch"
    /\ r_epoch <= r_cfg.epochs
    \* lines 444-445: train_epoch
    /\ r_train_epochs' = r_train_epochs + 1
    /\ LET validates == ValidationEpoch(r_cfg, r_epoch)
           \* lines 463-478: with prompt tuning, the evaluation with the
           \* concatenated prefix, or the plain one when do_concat is ""
           concat_err == IF validates /\ r_cfg.do_prompt_tuning
                            /\ r_cfg.do_concat # <<>>
                         THEN ConcatOutcome(r_cfg.do_concat) ELSE "none"
           bound == r_nc_bound \/ (validates /\ r_cfg.do_prompt_tuning)
           \* lines 491-505 read test_score_nc, lines 510-525 val_ece_nc, ...
           unbound == WritesLog(r_cfg) /\ ~bound
           err == IF concat_err # "none" THEN concat_err
                  ELSE IF unbound THEN "UnboundLocalError" ELSE "none"
       IN  /\ r_error' = err
           /\ r_nc_bound' = (bound /\ concat_err = "none")
           /\ r_logs' = IF err = "none" /\ WritesLog(r_cfg) /\ validates
                        THEN r_logs \cup {r_epoch} ELSE r_logs
           \* lines 534-535
           /\ r_callbacks' = IF err = "none" /\ r_cfg.has_callback
                                /\ r_cfg.rank = 0
                             THEN r_callbacks \cup {r_epoch} ELSE r_callbacks
           /\ IF err # "none"
              THEN r_pc' = "raised" /\ UNCHANGED r_epoch
              ELSE IF r_epoch < r_cfg.epochs
              THEN r_pc' = "epoch" /\ r_epoch' = r_epoch + 1
              ELSE r_pc' = "looped" /\ UNCHANGED r_epoch
    /\ UNCHANGED <<r_cfg, r_result>>

\* train.py 628-633
TrainReturn ==
    /\ r_pc = "looped"
    /\ r_result' = IF r_cfg.rank = 0 THEN "tuple" ELSE "None"
    /\ r_pc' = "returned"
    /\ UNCHANGED <<r_cfg, r_epoch, r_train_epochs, r_nc_bound, r_logs,
                   r_callbacks, r_error>>

(***************************************************************************)
(* make_serializable, train_loop.py 15-42.  A configuration value is a     *)
(* tagged record: a scalar, a tensor, a callable, any other object, or a   *)
(* list, tuple or dict of values.  str(x) is a string that names x.        *)
(***************************************************************************)
StrOf(x) == [t |-> "str", repr_of |-> x]

StrKey == [t |-> "str", v |-> "k"]

TupleKey == [t |-> "tuple", v |-> <<[t |-> "int", v |-> 1]>>]

Atoms ==
    {[t |-> "int", v |-> 1], [t |-> "str", v |-> "a"], PyNone,
     [t |-> "tensor"], [t |-> "callable"], [t |-> "object"]}

RECURSIVE ConfigValues(_)
\* the values nested to depth d: one- and two-element lists, tuples, and
\* dicts with a string key or with a tuple key
ConfigValues(d) ==
    IF d = 0 THEN Atoms
    ELSE LET V == ConfigValues(d - 1)
         IN  V \cup {[t |-> "list", v |-> <<x>>] : x \in V}
               \cup {[t |-> "list", v |-> <<x, [t |-> "callable"]>>] : x \in V}
               \cup {[t |-> "tuple", v |-> <<x>>] : x \in V}
               \cup {[t |-> "dict", v |-> (StrKey :> x)] : x \in V}
               \cup {[t |-> "dict", v |-> (TupleKey :> x)] : x \in V}

RECURSIVE JsonDumpsOk(_)
\* json.dumps(obj) returns: scalars, and lists, tuples and dicts of such
\* with keys that are str, int, float, bool or None
JsonDumpsOk(x) ==
    CASE x.t \in {"int", "str", "None"} -> TRUE
      [] x.t \in {"list", "tuple"} ->
            \A j \in 1..Len(x.v) : JsonDumpsOk(x.v[j])
      [] x.t = "dict" ->
            \A k \in DOMAIN x.v :
                k.t \in {"int", "str", "None"} /\ JsonDumpsOk(x.v[k])
      [] OTHER -> FALSE

\* a test that takes every object for serializable
is_json_serializable_always(obj) == TRUE

\* lines 15-29
is_json_serializable(obj) == JsonDumpsOk(obj)

RECURSIVE make_serializable(_)
\* lines 31-42, one statement after the other
make_serializable(config_sample) ==
    LET s1 == IF config_sample.t = "tensor"
              THEN [t |-> "str", v |-> "tensor"] ELSE config_sample
        s2 == IF s1.t = "dict"
              THEN [s1 EXCEPT !.v = [k \in DOMAIN s1.v |->
                                        make_serializable(s1.v[k])]]
              ELSE s1
        s3 == IF s2.t = "list"
              THEN [s2 EXCEPT !.v = [j \in 1..Len(s2.v) |->
                                        make_serializable(s2.v[j])]]
              ELSE s2
        s4 == IF s3.t = "callable" THEN StrOf(s3) ELSE s3
    IN  IF ~is_json_serializable(s4) THEN StrOf(s4) ELSE s4

SerializeInit ==
    /\ ms_pc = "args"
    /\ ms_arg \in ConfigValues(MaxDepth)
    /\ ms_out = PyNone
    /\ ms_again = PyNone

SerializeIdle ==
    /\ ms_pc = "idle"
    /\ ms_arg = PyNone
    /\ ms_out = PyNone
    /\ ms_again = PyNone

\* train_loop.py 311-312: the configuration is converted and dumped
MakeSerializable ==
    /\ ms_pc = "args"
    /\ ms_out' = make_serializable(ms_arg)
    /\ ms_pc' = "once"
    /\ UNCHANGED <<ms_arg, ms_again>>

\* the converted value is converted again
MakeSerializableAgain ==
    /\ ms_pc = "once"
    /\ ms_again' = make_serializable(ms_out)
    /\ ms_pc' = "twice"
    /\ UNCHANGED <<ms_arg, ms_out>>

(***************************************************************************)
(* Gradient blending under boosting, train.py 292-322 and 567-596.         *)
(* A gradient element is an integer; a blended element is kept as its sign *)
(* and its squared magnitude in hundredths, 65*cur^2 + 35*prior^2.         *)
(***************************************************************************)
Grads == {-1, 0, 1}

\* torch.sign
Sign(x) == IF x > 0 THEN 1 ELSE IF x < 0 THEN -1 ELSE 0

\* an unblended element as sign and squared magnitude
Element(g) == [sign |-> Sign(g), sq100 |-> 100 * g * g]

\* lines 304-317 on one element
BlendedGradient(flat_grad, flat_prior_grad) ==
    LET grad_signs == Sign(flat_grad)
        \* line 310: the argument of torch.sqrt, times 100; the root is >= 0
        sq100 == 65 * flat_grad * flat_grad + 35 * flat_prior_grad * flat_prior_grad
        flat_grad_new_signs == IF sq100 > 0 THEN 1 ELSE 0
        \* line 316: elements whose sign differs are multiplied by -1
        flipped == flat_grad_new_signs # grad_signs
    IN  [sign |-> IF flipped THEN -flat_grad_new_signs ELSE flat_grad_new_signs,
         sq100 |-> sq100]

\* a loop that blends in every epoch
BoostEveryEpoch(e) == TRUE

\* line 442
BoostThisEpoch(e) == e = 1

NoBackward == [raw |-> 0, prior |-> PyNone, out |-> Element(0)]

BoostInit ==
    /\ gb_pc = "batch"
    /\ gb_cfg \in [boosting : BOOLEAN, other_ensemble : BOOLEAN,
                   boosting_n_iters : 1..MaxIters, epochs : 1..MaxEpochs,
                   len_dl : 1..MaxBatches]
    /\ gb_member = 0
    /\ gb_epoch = 1
    /\ gb_batch = 0
    \* lines 567-568
    /\ prior_grad_dict = "None"
    /\ gradient_dict = [b \in {} |-> PyNone]
    /\ blend_log = <<>>
    /\ last_backward = NoBackward

BoostIdle ==
    /\ gb_pc = "idle"
    /\ gb_cfg = PyNone
    /\ gb_member = 0
    /\ gb_epoch = 0
    /\ gb_batch = 0
    /\ prior_grad_dict = "None"
    /\ gradient_dict = [b \in {} |-> PyNone]
    /\ blend_log = <<>>
    /\ last_backward = NoBackward

\* one pass of the for loop of line 233, lines 292-322
BoostBatch ==
    /\ gb_pc = "batch"
    /\ gb_batch < gb_cfg.len_dl
    /\ IF gb_cfg.boosting /\ BoostThisEpoch(gb_epoch)
       THEN \* lines 295-298; a prior_grad_dict that is not None is the object
            \* gradient_dict itself (lines 570, 596)
            LET no_prior == prior_grad_dict = "None"
            IN  IF ~no_prior /\ gb_batch \notin DOMAIN gradient_dict
                THEN \* line 298: KeyError
                     /\ gb_pc' = "raised"
                     /\ UNCHANGED <<gb_batch, gradient_dict, blend_log, last_backward>>
                ELSE \E output_grad \in Grads :
                       LET prior_grad_iter ==
                               IF no_prior THEN PyNone
                               ELSE gradient_dict[gb_batch]
                           stored == [member |-> gb_member, batch |-> gb_batch,
                                      grad |-> output_grad]
                       IN  \* line 301
                           /\ gradient_dict' =
                                [b \in DOMAIN gradient_dict \cup {gb_batch} |->
                                    IF b = gb_batch THEN stored ELSE gradient_dict[b]]
                           /\ blend_log' = Append(blend_log,
                                [member |-> gb_member, epoch |-> gb_epoch,
                                 batch |-> gb_batch,
                                 prior |-> IF no_prior THEN PyNone
                                           ELSE [member |-> prior_grad_iter.member,
                                                 batch |-> prior_grad_iter.batch],
                                 stored |-> [member |-> gb_member, batch |-> gb_batch]])
                           \* lines 304-319
                           /\ last_backward' =
                                [raw |-> output_grad,
                                 prior |-> IF no_prior THEN PyNone
                                           ELSE PyInt(prior_grad_iter.grad),
                                 out |-> IF no_prior
                                         THEN Element(output_grad)
                                         ELSE BlendedGradient(output_grad,
                                                              prior_grad_iter.grad)]
                           /\ gb_batch' = gb_batch + 1
                           /\ UNCHANGED gb_pc
       ELSE \* line 322: loss.backward()
            /\ gb_batch' = gb_batch + 1
            /\ UNCHANGED <<gb_pc, gradient_dict, blend_log, last_backward>>
    /\ UNCHANGED <<gb_cfg, gb_member, gb_epoch, prior_grad_dict>>

\* train_epoch returns; train_test_loop goes to the next epoch or returns
BoostEpochEnd ==
    /\ gb_pc = "batch"
    /\ gb_batch = gb_cfg.len_dl
    /\ IF gb_epoch < gb_cfg.epochs
       THEN gb_epoch' = gb_epoch + 1 /\ gb_batch' = 0 /\ UNCHANGED gb_pc
       ELSE gb_pc' = "assign" /\ UNCHANGED <<gb_epoch, gb_batch>>
    /\ UNCHANGED <<gb_cfg, gb_member, gradient_dict, prior_grad_dict, blend_log,
                   last_backward>>

\* lines 570 and 596, then the loop of line 585
BoostAssign ==
    /\ gb_pc = "assign"
    /\ prior_grad_dict' = "gradient_dict"
    /\ IF (gb_cfg.boosting \/ gb_cfg.other_ensemble)
          /\ gb_member + 1 < gb_cfg.boosting_n_iters
       THEN /\ gb_member' = gb_member + 1
            /\ gb_epoch' = 1
            /\ gb_batch' = 0
            /\ gb_pc' = "batch"
       ELSE /\ gb_pc' = "done"
            /\ UNCHANGED <<gb_member, gb_epoch, gb_batch>>
    /\ UNCHANGED <<gb_cfg, gradient_dict, blend_log, last_backward>>

(***************************************************************************)
(* The loader each member trains on, train.py 542-566 and 585-595, after   *)
(* the loaders of lines 89-105 are built.                                  *)
(***************************************************************************)
\* line 549: int(split_size * len(dl_backup.dataset)) with split_size = 0.5
SplitSize(n) == n \div 2

BaggingInit ==
    /\ bag_pc = "setup"
    /\ \E bagging \in BOOLEAN, other \in BOOLEAN, n \in 1..MaxIters :
         bag_cfg = [bagging |-> bagging, is_ensemble |-> bagging \/ other,
                    boosting_n_iters |-> n]
    /\ dl_backup = NoLoader
    /\ bag_i = 0
    /\ bag_error = "none"

BaggingIdle ==
    /\ bag_pc = "idle"
    /\ bag_cfg = PyNone
    /\ dl_backup = NoLoader
    /\ bag_i = 0
    /\ bag_error = "none"

\* lines 542-559
BaggingSetup ==
    /\ bag_pc = "setup"
    /\ l_pc = "done"
    /\ dl_backup' = IF bag_cfg.bagging THEN dl ELSE dl_backup
    /\ bag_pc' = "loader"
    /\ UNCHANGED <<bag_cfg, bag_i, bag_error, loaderVars>>

\* lines 562-566 for member 0, lines 586-590 for a later member
MemberLoader ==
    /\ bag_pc = "loader"
    /\ dl' = IF bag_cfg.bagging
             THEN DataLoader(SplitSize(dl_backup.n), bptt, TRUE)
             ELSE dl
    /\ bag_pc' = "train"
    /\ UNCHANGED <<bag_cfg, dl_backup, bag_i, bag_error>>
    /\ UNCHANGED <<l_pc, train_len, bptt, bptt_arg, aggregate_k_gradients,
                   val_dl, test_dl, n_incr, val_len, test_len>>

\* lines 569 and 595: train_test_loop, whose first train_epoch call asserts
\* at line 231; then the loop of line 585
MemberTrain ==
    /\ bag_pc = "train"
    /\ IF LenDl(dl) % aggregate_k_gradients # 0
       THEN /\ bag_error' = "AssertionError"
            /\ bag_pc' = "raised"
            /\ UNCHANGED bag_i
       ELSE IF bag_cfg.is_ensemble /\ bag_i + 1 < bag_cfg.boosting_n_iters
       THEN /\ bag_i' = bag_i + 1
            /\ bag_pc' = "loader"
            /\ UNCHANGED bag_error
       ELSE /\ bag_pc' = "done"
            /\ UNCHANGED <<bag_i, bag_error>>
    /\ UNCHANGED <<bag_cfg, dl_backup, loaderVars>>

(***************************************************************************)
(* train_function, train_loop.py 44-80, and the call of the epoch callback *)
(* at train.py 533-535.                                                    *)
(***************************************************************************)
Ensembling(c) == c.boosting \/ c.rand_init_ensemble \/ c.bagging

\* lines 46-50
SaveEveryK(c) == IF Ensembling(c) THEN c.epochs + 1 ELSE c.save_every_k_epochs

\* a train_function that installs save_callback in every run
MyCallbackAlwaysSave(c) == "save_callback"

\* lines 75-78
MyCallback(c) == IF Ensembling(c) THEN "no_callback" ELSE "save_callback"

NoAttribute == [set |-> FALSE, v |-> 0]

CallbackInit ==
    /\ cb_pc = "start"
    /\ cb_config \in [boosting : BOOLEAN, rand_init_ensemble : BOOLEAN,
                          bagging : BOOLEAN, epochs : 1..MaxCallbackEpochs,
                          save_every_k_epochs : 1..MaxSaveEvery,
                          boosting_n_iters : 1..MaxIters]
    /\ save_every_k = 0
    /\ my_callback = "none"
    /\ cb_epochs = <<>>
    /\ last_saved_epoch = NoAttribute
    /\ checkpoints = <<>>
    /\ n_invoked = 0
    /\ cb_left = 0

CallbackIdle ==
    /\ cb_pc = "idle"
    /\ cb_config = PyNone
    /\ save_every_k = 0
    /\ my_callback = "none"
    /\ cb_epochs = <<>>
    /\ last_saved_epoch = NoAttribute
    /\ checkpoints = <<>>
    /\ n_invoked = 0
    /\ cb_left = 0

\* lines 44-84: up to the call of get_model, which trains; train() runs
\* train_test_loop once per member (train.py 569, 585-595), epochs epochs each
TrainFunction ==
    /\ cb_pc = "start"
    /\ save_every_k' = SaveEveryK(cb_config)
    /\ my_callback' = MyCallback(cb_config)
    /\ cb_left' = cb_config.epochs *
                    (IF Ensembling(cb_config)
                     THEN cb_config.boosting_n_iters ELSE 1)
    /\ cb_pc' = "training"
    /\ UNCHANGED <<cb_config, cb_epochs, last_saved_epoch, checkpoints, n_invoked>>

\* train.py 534-535 on rank 0: one invocation of my_callback
EpochCallback ==
    /\ cb_pc = "training"
    /\ cb_left > 0
    /\ cb_left' = cb_left - 1
    /\ n_invoked' = n_invoked + 1
    /\ IF my_callback = "save_callback"
       THEN \* lines 53-65
            LET seen == Append(cb_epochs, n_invoked + 1)
                attr == IF last_saved_epoch.set THEN last_saved_epoch.v ELSE 0
            IN  /\ cb_epochs' = seen
                /\ IF Len(seen) % save_every_k = 0
                   THEN /\ checkpoints' = Append(checkpoints,
                               [index |-> attr, ordinal |-> n_invoked + 1])
                        /\ last_saved_epoch' = [set |-> TRUE, v |-> attr + 1]
                   ELSE /\ last_saved_epoch' = [set |-> TRUE, v |-> attr]
                        /\ UNCHANGED checkpoints
       ELSE \* lines 67-68
            UNCHANGED <<cb_epochs, last_saved_epoch, checkpoints>>
    /\ UNCHANGED <<cb_pc, cb_config, save_every_k, my_callback>>

\* get_model returns, line 86
TrainFunctionReturn ==
    /\ cb_pc = "training"
    /\ cb_left = 0
    /\ cb_pc' = "done"
    /\ UNCHANGED <<cb_config, save_every_k, my_callback, cb_epochs,
                   last_saved_epoch, checkpoints, n_invoked, cb_left>>

(***************************************************************************)
(* The names total_loss and total_positional_losses: locals of train()     *)
(* (train.py 555-556, returned at 633) and, by the assignment of line 444, *)
(* locals of train_test_loop.                                              *)
(***************************************************************************)
Float(x) == [inf |-> FALSE, v |-> x]

\* float('inf')
Inf == [inf |-> TRUE, v |-> 0]

Unbound == [bound |-> FALSE, total_loss |-> Inf, total_positional_losses |-> Inf]

\* a train_test_loop that declares the two names nonlocal
AssignsNonlocal(name) == TRUE

\* line 444 assigns the names in train_test_loop, which has no nonlocal
\* statement: the assignment binds locals of train_test_loop
AssignsEnclosing(name) == FALSE

ReturnInit ==
    /\ rv_pc = "call"
    /\ rv_cfg \in [epochs : 1..MaxEpochs, is_ensemble : BOOLEAN,
                   boosting_n_iters : 1..MaxIters, rank : 0..MaxRank]
    /\ rv_member = 0
    /\ rv_epoch = 0
    \* lines 555-556
    /\ total_loss = Inf
    /\ total_positional_losses = Inf
    /\ loop_locals = Unbound
    /\ rv_result = "not returned"

ReturnIdle ==
    /\ rv_pc = "idle"
    /\ rv_cfg = PyNone
    /\ rv_member = 0
    /\ rv_epoch = 0
    /\ total_loss = Inf
    /\ total_positional_losses = Inf
    /\ loop_locals = Unbound
    /\ rv_result = "not returned"

\* lines 569 and 595: a call of train_test_loop starts with fresh locals
CallTrainTestLoop ==
    /\ rv_pc = "call"
    /\ loop_locals' = Unbound
    /\ rv_epoch' = 1
    /\ rv_pc' = "epoch"
    /\ UNCHANGED <<rv_cfg, rv_member, total_loss, total_positional_losses, rv_result>>

\* lines 440-445: one epoch; train_epoch returns a mean loss and positional losses
LoopEpoch ==
    /\ rv_pc = "epoch"
    /\ \E loss \in {Float(0), Float(1)}, pos \in {Float(0), Float(1)} :
         /\ IF AssignsEnclosing("total_loss")
            THEN total_loss' = loss /\ UNCHANGED loop_locals
            ELSE /\ loop_locals' = [bound |-> TRUE, total_loss |-> loss,
                                    total_positional_losses |-> pos]
                 /\ UNCHANGED total_loss
         /\ IF AssignsEnclosing("total_positional_losses")
            THEN total_positional_losses' = pos
            ELSE UNCHANGED total_positional_losses
    /\ IF rv_epoch < rv_cfg.epochs
       THEN rv_epoch' = rv_epoch + 1 /\ UNCHANGED rv_pc
       ELSE rv_pc' = "looped" /\ UNCHANGED rv_epoch
    /\ UNCHANGED <<rv_cfg, rv_member, rv_result>>

\* lines 583-585: the next member, or the end of the loop
NextMember ==
    /\ rv_pc = "looped"
    /\ IF rv_cfg.is_ensemble /\ rv_member + 1 < rv_cfg.boosting_n_iters
       THEN rv_member' = rv_member + 1 /\ rv_pc' = "call"
       ELSE rv_pc' = "finish" /\ UNCHANGED rv_member
    /\ UNCHANGED <<rv_cfg, rv_epoch, total_loss, total_positional_losses,
                   loop_locals, rv_result>>

\* lines 628-633
ReturnTrain ==
    /\ rv_pc = "finish"
    /\ rv_result' = IF rv_cfg.rank = 0
                    THEN <<total_loss, total_positional_losses>>
                    ELSE <<>>
    /\ rv_pc' = "returned"
    /\ UNCHANGED <<rv_cfg, rv_member, rv_epoch, total_loss,
                   total_positional_losses, loop_locals>>

(***************************************************************************)
(* Specifications, one per part of the program.                            *)
(***************************************************************************)
LoaderFrame == UNCHANGED <<epochVars, memberVars, prefixVars, constructVars, datasetVars, subsetVars, tabdsVars, runVars, runLoopVars, serializeVars, boostVars, baggingVars, callbackVars, returnVars>>

LoaderSpecInit == LoaderInit /\ EpochIdle /\ MemberIdle /\ PrefixIdle /\ ConstructIdle /\ DatasetIdle /\ SubsetIdle /\ TabDSIdle /\ NoInterrupt /\ RunLoopIdle /\ SerializeIdle /\ BoostIdle /\ BaggingIdle /\ CallbackIdle /\ ReturnIdle

LoaderNext ==
    \/ MakeTrainLoader /\ LoaderFrame
    \/ InflateWindow /\ LoaderFrame
    \/ MakeEvalLoaders /\ LoaderFrame

SpecLoader == LoaderSpecInit /\ [][LoaderNext]_vars

\* train() runs lines 89-105 without waiting: a step that can be taken is taken
SpecLoaderFair == LoaderSpecInit /\ [][LoaderNext]_vars /\ WF_vars(LoaderNext)

EpochFrame == UNCHANGED <<loaderVars, memberVars, prefixVars, constructVars, datasetVars, subsetVars, tabdsVars, runVars, runLoopVars, serializeVars, boostVars, baggingVars, callbackVars, returnVars>>

EpochSpecInit == EpochLoaderInit /\ EpochInit /\ MemberIdle /\ PrefixIdle /\ ConstructIdle /\ DatasetIdle /\ SubsetIdle /\ TabDSIdle /\ NoInterrupt /\ RunLoopIdle /\ SerializeIdle /\ BoostIdle /\ BaggingIdle /\ CallbackIdle /\ ReturnIdle

EpochNext ==
    \/ TrainEpochCall /\ EpochFrame
    \/ TrainBatch /\ EpochFrame
    \/ TrainEpochReturn /\ EpochFrame
    \/ NextEpoch /\ EpochFrame

SpecEpoch == EpochSpecInit /\ [][EpochNext]_vars

MemberFrame == UNCHANGED <<loaderVars, epochVars, prefixVars, constructVars, datasetVars, subsetVars, tabdsVars, runVars, runLoopVars, serializeVars, boostVars, baggingVars, callbackVars, returnVars>>

MemberSpecInit == LoaderIdle /\ EpochIdle /\ MemberInit /\ PrefixIdle /\ ConstructIdle /\ DatasetIdle /\ SubsetIdle /\ TabDSIdle /\ NoInterrupt /\ RunLoopIdle /\ SerializeIdle /\ BoostIdle /\ BaggingIdle /\ CallbackIdle /\ ReturnIdle

MemberNext ==
    \/ TrainMember0 /\ MemberFrame
    \/ EnsembleIteration /\ MemberFrame
    \/ FinishTrain /\ MemberFrame

SpecMember == MemberSpecInit /\ [][MemberNext]_vars

PrefixFrame == UNCHANGED <<loaderVars, epochVars, memberVars, constructVars, datasetVars, subsetVars, tabdsVars, runVars, runLoopVars, serializeVars, boostVars, baggingVars, callbackVars, returnVars>>

PrefixSpecInit == LoaderIdle /\ EpochIdle /\ MemberIdle /\ PrefixInit /\ ConstructIdle /\ DatasetIdle /\ SubsetIdle /\ TabDSIdle /\ NoInterrupt /\ RunLoopIdle /\ SerializeIdle /\ BoostIdle /\ BaggingIdle /\ CallbackIdle /\ ReturnIdle

PrefixNext ==
    \/ MakeConcatenator /\ PrefixFrame
    \/ ConcatEmbedding /\ PrefixFrame
    \/ RestoreEmbedding /\ PrefixFrame

SpecPrefix == PrefixSpecInit /\ [][PrefixNext]_vars

ConstructFrame == UNCHANGED <<loaderVars, epochVars, memberVars, prefixVars, datasetVars, subsetVars, tabdsVars, runVars, runLoopVars, serializeVars, boostVars, baggingVars, callbackVars, returnVars>>

ConstructSpecInit == LoaderIdle /\ EpochIdle /\ MemberIdle /\ PrefixIdle /\ ConstructInit /\ DatasetIdle /\ SubsetIdle /\ TabDSIdle /\ NoInterrupt /\ RunLoopIdle /\ SerializeIdle /\ BoostIdle /\ BaggingIdle /\ CallbackIdle /\ ReturnIdle

ConstructNext ==
    \/ Construct /\ ConstructFrame

SpecConstruct == ConstructSpecInit /\ [][ConstructNext]_vars

DatasetFrame == UNCHANGED <<loaderVars, epochVars, memberVars, prefixVars, constructVars, subsetVars, tabdsVars, runVars, runLoopVars, serializeVars, boostVars, baggingVars, callbackVars, returnVars>>

DatasetSpecInit == LoaderIdle /\ EpochIdle /\ MemberIdle /\ PrefixIdle /\ ConstructIdle /\ DatasetInit /\ SubsetIdle /\ TabDSIdle /\ NoInterrupt /\ RunLoopIdle /\ SerializeIdle /\ BoostIdle /\ BaggingIdle /\ CallbackIdle /\ ReturnIdle

DatasetNext ==
    \/ CatFeatureEncode /\ DatasetFrame
    \/ Write /\ DatasetFrame
    \/ Read /\ DatasetFrame

SpecDataset == DatasetSpecInit /\ [][DatasetNext]_vars

SubsetFrame == UNCHANGED <<loaderVars, epochVars, memberVars, prefixVars, constructVars, datasetVars, tabdsVars, runVars, runLoopVars, serializeVars, boostVars, baggingVars, callbackVars, returnVars>>

SubsetSpecInit == LoaderIdle /\ EpochIdle /\ MemberIdle /\ PrefixIdle /\ ConstructIdle /\ DatasetIdle /\ SubsetInit /\ TabDSIdle /\ NoInterrupt /\ RunLoopIdle /\ SerializeIdle /\ BoostIdle /\ BaggingIdle /\ CallbackIdle /\ ReturnIdle

SubsetNext ==
    \/ MakeSubset /\ SubsetFrame

SpecSubset == SubsetSpecInit /\ [][SubsetNext]_vars

TabDSFrame == UNCHANGED <<loaderVars, epochVars, memberVars, prefixVars, constructVars, datasetVars, subsetVars, runVars, runLoopVars, serializeVars, boostVars, baggingVars, callbackVars, returnVars>>

TabDSSpecInit == LoaderIdle /\ EpochIdle /\ MemberIdle /\ PrefixIdle /\ ConstructIdle /\ DatasetIdle /\ SubsetIdle /\ TabDSInit /\ NoInterrupt /\ RunLoopIdle /\ SerializeIdle /\ BoostIdle /\ BaggingIdle /\ CallbackIdle /\ ReturnIdle

TabDSNext ==
    \/ MakeTabDS /\ TabDSFrame

SpecTabDS == TabDSSpecInit /\ [][TabDSNext]_vars

InterruptFrame == UNCHANGED <<loaderVars, epochVars, prefixVars, constructVars, datasetVars, subsetVars, tabdsVars, runLoopVars, serializeVars, boostVars, baggingVars, callbackVars, returnVars>>

InterruptSpecInit == LoaderIdle /\ EpochIdle /\ MemberInit /\ PrefixIdle /\ ConstructIdle /\ DatasetIdle /\ SubsetIdle /\ TabDSIdle /\ NoInterrupt /\ RunLoopIdle /\ SerializeIdle /\ BoostIdle /\ BaggingIdle /\ CallbackIdle /\ ReturnIdle

InterruptNext ==
    \/ TrainMember0 /\ MemberFrame
    \/ EnsembleIteration /\ MemberFrame
    \/ FinishTrain /\ MemberFrame
    \/ InterruptMember0 /\ InterruptFrame
    \/ IterationAfterInterrupt /\ InterruptFrame
    \/ FinishAfterInterrupt /\ InterruptFrame
    \/ InterruptIteration /\ InterruptFrame

SpecInterrupt == InterruptSpecInit /\ [][InterruptNext]_vars

RunLoopFrame == UNCHANGED <<loaderVars, epochVars, memberVars, prefixVars, constructVars, datasetVars, subsetVars, tabdsVars, runVars, serializeVars, boostVars, baggingVars, callbackVars, returnVars>>

RunLoopSpecInit == LoaderIdle /\ EpochIdle /\ MemberIdle /\ PrefixIdle /\ ConstructIdle /\ DatasetIdle /\ SubsetIdle /\ TabDSIdle /\ NoInterrupt /\ RunLoopInit /\ SerializeIdle /\ BoostIdle /\ BaggingIdle /\ CallbackIdle /\ ReturnIdle

RunLoopNext ==
    \/ ProcessData /\ RunLoopFrame
    \/ TrainTestLoopPass /\ RunLoopFrame
    \/ TrainReturn /\ RunLoopFrame

SpecRunLoop == RunLoopSpecInit /\ [][RunLoopNext]_vars

SerializeFrame == UNCHANGED <<loaderVars, epochVars, memberVars, prefixVars, constructVars, datasetVars, subsetVars, tabdsVars, runVars, runLoopVars, boostVars, baggingVars, callbackVars, returnVars>>

SerializeSpecInit == LoaderIdle /\ EpochIdle /\ MemberIdle /\ PrefixIdle /\ ConstructIdle /\ DatasetIdle /\ SubsetIdle /\ TabDSIdle /\ NoInterrupt /\ RunLoopIdle /\ SerializeInit /\ BoostIdle /\ BaggingIdle /\ CallbackIdle /\ ReturnIdle

SerializeNext ==
    \/ MakeSerializable /\ SerializeFrame
    \/ MakeSerializableAgain /\ SerializeFrame

SpecSerialize == SerializeSpecInit /\ [][SerializeNext]_vars

BoostFrame == UNCHANGED <<loaderVars, epochVars, memberVars, prefixVars, constructVars, datasetVars, subsetVars, tabdsVars, runVars, runLoopVars, serializeVars, baggingVars, callbackVars, returnVars>>

BoostSpecInit == LoaderIdle /\ EpochIdle /\ MemberIdle /\ PrefixIdle /\ ConstructIdle /\ DatasetIdle /\ SubsetIdle /\ TabDSIdle /\ NoInterrupt /\ RunLoopIdle /\ SerializeIdle /\ BoostInit /\ BaggingIdle /\ CallbackIdle /\ ReturnIdle

BoostNext ==
    \/ BoostBatch /\ BoostFrame
    \/ BoostEpochEnd /\ BoostFrame
    \/ BoostAssign /\ BoostFrame

SpecBoost == BoostSpecInit /\ [][BoostNext]_vars

BaggingFrame == UNCHANGED <<epochVars, memberVars, prefixVars, constructVars, datasetVars, subsetVars, tabdsVars, runVars, runLoopVars, serializeVars, boostVars, callbackVars, returnVars>>

BaggingSpecInit == LoaderInit /\ EpochIdle /\ MemberIdle /\ PrefixIdle /\ ConstructIdle /\ DatasetIdle /\ SubsetIdle /\ TabDSIdle /\ NoInterrupt /\ RunLoopIdle /\ SerializeIdle /\ BoostIdle /\ BaggingInit /\ CallbackIdle /\ ReturnIdle

BaggingNext ==
    \/ MakeTrainLoader /\ LoaderFrame
    \/ InflateWindow /\ LoaderFrame
    \/ MakeEvalLoaders /\ LoaderFrame
    \/ BaggingSetup /\ BaggingFrame
    \/ MemberLoader /\ BaggingFrame
    \/ MemberTrain /\ BaggingFrame

SpecBagging == BaggingSpecInit /\ [][BaggingNext]_vars

CallbackFrame == UNCHANGED <<loaderVars, epochVars, memberVars, prefixVars, constructVars, datasetVars, subsetVars, tabdsVars, runVars, runLoopVars, serializeVars, boostVars, baggingVars, returnVars>>

CallbackSpecInit == LoaderIdle /\ EpochIdle /\ MemberIdle /\ PrefixIdle /\ ConstructIdle /\ DatasetIdle /\ SubsetIdle /\ TabDSIdle /\ NoInterrupt /\ RunLoopIdle /\ SerializeIdle /\ BoostIdle /\ BaggingIdle /\ CallbackInit /\ ReturnIdle

CallbackNext ==
    \/ TrainFunction /\ CallbackFrame
    \/ EpochCallback /\ CallbackFrame
    \/ TrainFunctionReturn /\ CallbackFrame

SpecCallback == CallbackSpecInit /\ [][CallbackNext]_vars

ReturnFrame == UNCHANGED <<loaderVars, epochVars, memberVars, prefixVars, constructVars, datasetVars, subsetVars, tabdsVars, runVars, runLoopVars, serializeVars, boostVars, baggingVars, callbackVars>>

ReturnSpecInit == LoaderIdle /\ EpochIdle /\ MemberIdle /\ PrefixIdle /\ ConstructIdle /\ DatasetIdle /\ SubsetIdle /\ TabDSIdle /\ NoInterrupt /\ RunLoopIdle /\ SerializeIdle /\ BoostIdle /\ BaggingIdle /\ CallbackIdle /\ ReturnInit

ReturnNext ==
    \/ CallTrainTestLoop /\ ReturnFrame
    \/ LoopEpoch /\ ReturnFrame
    \/ NextMember /\ ReturnFrame
    \/ ReturnTrain /\ ReturnFrame

SpecReturn == ReturnSpecInit /\ [][ReturnNext]_vars

(***************************************************************************)
(* C4: when the inflation loop has ended, the number of batches of one     *)
(* epoch, floor(N / bptt), is divisible by the accumulation factor; the    *)
(* window size is the initial one plus one per pass of the loop and is at  *)
(* no time below the initial one; the validation and test loaders are      *)
(* built with the final window size.                                       *)
(***************************************************************************)
C4_WindowInflation ==
    /\ bptt = bptt_arg + n_incr
    /\ bptt >= bptt_arg
    /\ l_pc = "done" =>
        /\ dl.batch_size = bptt
        /\ (train_len \div bptt) % aggregate_k_gradients = 0
        /\ val_dl.batch_size = bptt
        /\ test_dl.batch_size = bptt

C4_Witness ==
    /\ l_pc = "done"
    /\ n_incr >= 2
    /\ aggregate_k_gradients >= 2
    /\ train_len \div bptt > 0

(***************************************************************************)
(* C5: in train_epoch the clip / optimizer step / zero_grad block runs at  *)
(* batch b exactly when b mod k = k-1; each step sees the gradients of     *)
(* exactly the k micro-batches since the previous boundary (they are never *)
(* cleared in between), and when the epoch returns no gradient is pending. *)
(***************************************************************************)
C5_StepAtBoundary ==
    te_pc \in {"batch", "returned"} =>
        /\ \A j \in 1..Len(step_log) :
              /\ step_log[j].batch % aggregate_k_gradients = aggregate_k_gradients - 1
              /\ step_log[j].accumulated = aggregate_k_gradients
        /\ \A b \in 0..(batch - 1) :
              (b % aggregate_k_gradients = aggregate_k_gradients - 1)
                 <=> (\E j \in 1..Len(step_log) : step_log[j].batch = b)
        /\ grad_pending = batch % aggregate_k_gradients
        /\ te_pc = "returned" => grad_pending = 0

C5_Witness ==
    /\ te_pc = "returned"
    /\ aggregate_k_gradients >= 2
    /\ Len(step_log) >= 2
    /\ epoch = 2

(***************************************************************************)
(* The members' outputs as the claims name them.                           *)
(***************************************************************************)
\* member n was rejected at line 615
Rejected(n) == boosting_acc[n] <= ensembling_acc[n - 1].accuracy

\* the recorded output of member n when iteration k combines: all-zero for a
\* member rejected earlier, else the output its training returned
Recorded(n, k) ==
    IF n < k /\ Rejected(n) THEN ZerosLike(trained[n]) ELSE trained[n]

RECURSIVE RefSum(_, _, _, _)
\* acc + sum over n = from..k of scale * Recorded(n, k)
RefSum(acc, scale, from, k) ==
    IF from > k THEN acc
    ELSE RefSum(TAdd(acc, TMul(scale, Recorded(from, k))), scale, from + 1, k)

RefAdditive(k) == [num |-> RefSum(trained[0], boosting_lr, 1, k), den |-> 1]

RefAveraged(k) == [num |-> RefSum(trained[0], 1, 1, k), den |-> k + 1]

(***************************************************************************)
(* C1: in additive mode the combined output of iteration k is              *)
(* member_0_output + sum over n = 1..k of boosting_lr * member_n_output,   *)
(* each term once: member 0's output as recorded when it finished, a       *)
(* rejected member's output all-zero.                                      *)
(***************************************************************************)
C1_AdditiveCombination ==
    ~average_ensemble =>
        \A k \in DOMAIN current_outs : current_outs[k] = RefAdditive(k)

(***************************************************************************)
(* C2: for every iteration n >= 1, if the accuracy of the combined output  *)
(* is not strictly greater than the accuracy recorded for n-1, member n's  *)
(* recorded output is all-zero and the record of n is the record of n-1;   *)
(* otherwise the record of n holds the new accuracy with the ECE and TACE  *)
(* of the combined output of this iteration.                               *)
(***************************************************************************)
C2_AcceptOrReject ==
    \A n \in DOMAIN current_outs :
        /\ boosting_acc[n] = Accuracy(current_outs[n].num, test_targets)
        /\ IF boosting_acc[n] <= ensembling_acc[n - 1].accuracy
           THEN /\ output_dict[n] = ZerosLike(trained[n])
                /\ ensembling_acc[n] = ensembling_acc[n - 1]
           ELSE /\ ensembling_acc[n].accuracy = boosting_acc[n]
                /\ ensembling_acc[n].accuracy > ensembling_acc[n - 1].accuracy
                /\ ensembling_acc[n].ece = um_ece(test_targets, current_outs[n])
                /\ ensembling_acc[n].tace = um_tace(test_targets, current_outs[n])

\* a run with an accepted member after a rejected one whose training
\* returned a non-zero output
C2_Witness ==
    /\ m_pc = "returned"
    /\ \E n, k \in DOMAIN current_outs :
         /\ n < k
         /\ Rejected(n)
         /\ trained[n] # ZerosLike(trained[n])
         /\ output_dict[n] = ZerosLike(trained[n])
         /\ ~Rejected(k)

(***************************************************************************)
(* C3: once member n is rejected, the combined output of every later       *)
(* iteration k > n, additive or averaged, is the value obtained with       *)
(* member n's output taken to be zero.                                     *)
(***************************************************************************)
C3_RejectedNeverContributes ==
    \A n \in DOMAIN current_outs : \A k \in DOMAIN current_outs :
        (n < k /\ Rejected(n)) =>
            current_outs[k] = IF average_ensemble THEN RefAveraged(k)
                              ELSE RefAdditive(k)

(***************************************************************************)
(* C6: for every method concat_embedding accepts and every list of saved   *)
(* prefixes, after concat_embedding and restore_embedding the model's      *)
(* prefix tensor, y labels and prefix_size are the ones it had before the  *)
(* concatenation, and the freeze-all-but-prefix policy has been applied    *)
(* again.                                                                  *)
(***************************************************************************)
C6_PrefixRestore ==
    p_pc = "restored" =>
        /\ prefix_embedding = before.embedding
        /\ prefix_y_embedding = before.y_embedding
        /\ prefix_size = before.size
        /\ n_freeze = before.n_freeze + 1

\* restored after a size-controlled concatenation of saved prefixes that
\* had put other rows into the model
C6_Witness ==
    /\ p_pc = "restored"
    /\ HasSizeCtl(do_concat)
    /\ Len(prefix_weights_l) >= 2
    /\ ec.concatenated_embedding # ec.original_embedding
    /\ ec.prefix_size # ec.original_prefix_size

(***************************************************************************)
(* C9: construction succeeds exactly when X is 2-D, y is 1-D, their first  *)
(* dimensions agree, every index of cat_idx is below the number of         *)
(* features, target_type is regression, binary or classification,          *)
(* num_classes is 1 for regression and binary and above 2 for              *)
(* classification, and a given num_features / num_instances matches the    *)
(* shape; every other input raises and makes no object.                    *)
(***************************************************************************)
C9_Valid(a) ==
    /\ Len(a.X.shape) = 2
    /\ Len(a.y.shape) = 1
    /\ a.X.shape[1] = a.y.shape[1]
    /\ \A j \in 1..Len(a.cat_idx) : a.cat_idx[j] < a.X.shape[2]
    /\ a.target_type \in {"regression", "binary", "classification"}
    /\ a.target_type \in {"regression", "binary"} => a.num_classes = 1
    /\ a.target_type = "classification" => a.num_classes > 2
    /\ a.num_features # PyNone => a.num_features.v = a.X.shape[2]
    /\ a.num_instances # PyNone =>
          a.num_instances.v = a.X.shape[1] /\ a.num_instances.v = a.y.shape[1]

SameSplits(a, b) ==
    \/ a = b
    \/ /\ a.t = "list"
       /\ b.t = "ndarray"
       /\ b.shape = <<Len(a.v)>>
       /\ b.data = a.v

C7_RoundTrip ==
    (last_call.op = "read" /\ fresh) =>
        /\ last_call.raised = "none"
        /\ read_ds.name = ds.name
        /\ read_ds.X = ds.X
        /\ read_ds.y = ds.y
        /\ read_ds.cat_idx = ds.cat_idx
        /\ read_ds.cat_dims = ds.cat_dims
        /\ read_ds.target_type = ds.target_type
        /\ read_ds.num_classes = ds.num_classes
        /\ read_ds.num_features = ds.num_features
        /\ read_ds.num_instances = ds.num_instances
        /\ read_ds.split_source = ds.split_source
        /\ SameSplits(ds.split_indeces, read_ds.split_indeces)
        /\ ds.split_indeces = PyNone => read_ds.split_indeces = PyNone

(***************************************************************************)
(* C8: a second cat_feature_encode on the same instance raises and leaves  *)
(* X and cat_dims as they were; cat_dims is assigned at most once.         *)
(***************************************************************************)
C8_EncodeOnce ==
    /\ n_populated <= 1
    /\ (last_call.op = "encode" /\ n_encode >= 2) =>
          /\ last_call.raised = "RuntimeError"
          /\ ds.X = ds_before.X
          /\ ds.cat_dims = ds_before.cat_dims

\* the second call on a dataset without categorical columns
C8_Witness ==
    /\ last_call.op = "encode"
    /\ n_encode = 2
    /\ last_call.raised = "RuntimeError"
    /\ ds.cat_idx = <<>>
    /\ ds.cat_dims = PyList(<<>>)

(***************************************************************************)
(* C10: write without overwrite on an existing directory raises and leaves *)
(* every file of the directory as it was; write with overwrite on an       *)
(* existing directory succeeds and the four artifacts are those of the     *)
(* dataset.                                                                *)
(***************************************************************************)
C10_WriteOverwrite ==
    (last_call.op = "write" /\ fs_before.exists) =>
        /\ ~last_call.overwrite => last_call.raised # "none" /\ fs = fs_before
        /\ last_call.overwrite => last_call.raised = "none" /\ fs = Artifacts(ds)

\* a refused write over the artifacts of an earlier write
C10_Witness ==
    /\ last_call.op = "write"
    /\ ~last_call.overwrite
    /\ last_call.raised = "FileExistsError"
    /\ fs_before.X # Absent
    /\ fresh

(***************************************************************************)
(* C11: make_subset reduces an axis only when the configured count is      *)
(* strictly between 0 and the size of the axis.  Otherwise the axis comes  *)
(* back as it was, same ids in the same order, for features and rows       *)
(* independently and under every policy name; a reduced axis has exactly   *)
(* the configured count, and X and y keep the same rows.                   *)
(***************************************************************************)
C11_Between(size, count) == 0 < count /\ count < size

C11_MakeSubsetAxes ==
    n_subset_calls > 0 =>
        LET featRed == C11_Between(Len(sub_in.X.cols), ssm.subset_features)
            rowRed == C11_Between(Len(sub_in.X.rows), ssm.subset_rows)
        IN  /\ (~featRed /\ ~rowRed) =>
                /\ sub_out.raised = "none"
                /\ sub_out.X = sub_in.X
                /\ sub_out.y = sub_in.y
            /\ sub_out.raised = "none" =>
                /\ ~featRed => sub_out.X.cols = sub_in.X.cols
                /\ featRed => Len(sub_out.X.cols) = ssm.subset_features
                /\ ~rowRed => /\ sub_out.X.rows = sub_in.X.rows
                              /\ sub_out.y.rows = sub_in.y.rows
                /\ rowRed => Len(sub_out.X.rows) = ssm.subset_rows
                /\ sub_out.X.rows = sub_out.y.rows

\* a random cut of both axes that is not the first columns
C11_Witness ==
    /\ n_subset_calls > 0
    /\ sub_out.raised = "none"
    /\ ssm.subset_features_method = "random"
    /\ ssm.subset_rows_method = "random"
    /\ C11_Between(Len(sub_in.X.cols), ssm.subset_features)
    /\ C11_Between(Len(sub_in.X.rows), ssm.subset_rows)
    /\ sub_out.X.cols[1] # 0

(***************************************************************************)
(* C12: over the make_subset calls on one SubsetMaker the feature selector *)
(* is fitted at most once, and every call that returns a feature-reduced X *)
(* under mutual_information returns the columns the first fit chose.       *)
(***************************************************************************)
C12_FitOnce ==
    /\ n_fit <= 1
    /\ (ssm # PyNone /\ ssm.feature_selector # PyNone) =>
          /\ n_fit = 1
          /\ ssm.feature_selector.support = fit_support
    /\ ( /\ n_subset_calls > 0
         /\ sub_out.raised = "none"
         /\ ssm.subset_features_method = "mutual_information"
         /\ C11_Between(Len(sub_in.X.cols), ssm.subset_features) ) =>
          sub_out.X.cols = Take(sub_in.X.cols, fit_support)

\* a "val" call after the fit, cut to columns that are not the first ones
C12_Witness ==
    /\ n_subset_calls = 2
    /\ n_fit = 1
    /\ sub_in.split = "val"
    /\ sub_out.raised = "none"
    /\ ssm.subset_features_method = "mutual_information"
    /\ Len(fit_support) > 0
    /\ fit_support[1] # 0
    /\ sub_out.X.cols = fit_support

(***************************************************************************)
(* C13: for F feature columns and a maximum M: F < M gives an X of exactly *)
(* M columns, the first F those of the input and the rest zero; F = M      *)
(* gives X unchanged; F > M fails and X is never truncated.                *)
(***************************************************************************)
C13_FeaturePadding ==
    t_pc = "done" =>
        LET X == t_args.X
            F == X.shape[2]
            M == t_args.num_features
        IN  /\ F < M =>
                /\ t_result.raised = "none"
                /\ t_result.X.shape = <<X.shape[1], M>>
                /\ \A r \in 1..X.shape[1] :
                      /\ Len(t_result.X.data[r]) = M
                      /\ \A c \in 1..F : t_result.X.data[r][c] = X.data[r][c]
                      /\ \A c \in (F + 1)..M : t_result.X.data[r][c] = 0
            /\ F = M => t_result.raised = "none" /\ t_result.X = X
            /\ F > M => t_result.raised # "none"

(***************************************************************************)
(* C14: after an interrupt, wherever it arrived, no exception leaves       *)
(* train; and when train has returned from an ensemble run the ensembling  *)
(* summary on disk is the one in memory.                                   *)
(***************************************************************************)
C14_InterruptFinalizes ==
    interrupts > 0 =>
        /\ run_error = "none"
        /\ m_pc # "raised"
        /\ (m_pc = "returned" /\ is_ensemble) => acc_file = ensembling_acc

(***************************************************************************)
(* C15: a failing optimizer step at a boundary does not end train_epoch:   *)
(* no exception leaves it, the gradients are cleared after the failed      *)
(* step, and the call returns after all len(dl) batches.                   *)
(***************************************************************************)
C15_FailedStepAbsorbed ==
    (\E j \in 1..Len(step_log) : ~step_log[j].ok) =>
        /\ te_pc # "raised"
        /\ te_error = "none"
        /\ (~step_log[Len(step_log)].ok /\ batch = step_log[Len(step_log)].batch + 1)
              => grad_pending = 0
        /\ te_pc = "returned" => batch = LenDl(dl)

(***************************************************************************)
(* C20: with several processes the reduction of gradients is suppressed on *)
(* the backward pass of batch b exactly when b mod k # k-1, and every      *)
(* optimizer step is taken on a batch whose backward pass reduced them.    *)
(***************************************************************************)
C20_SyncAtBoundary ==
    using_dist =>
        /\ \A j \in 1..Len(backward_log) :
              backward_log[j].no_sync <=>
                  (backward_log[j].batch % aggregate_k_gradients
                      # aggregate_k_gradients - 1)
        /\ \A j \in 1..Len(step_log) :
              /\ step_log[j].synced
              /\ \E h \in 1..Len(backward_log) :
                    /\ backward_log[h].batch = step_log[j].batch
                    /\ ~backward_log[h].no_sync

\* two windows of at least two micro-batches under several processes
C20_Witness ==
    /\ using_dist
    /\ te_pc = "returned"
    /\ aggregate_k_gradients >= 2
    /\ Len(step_log) >= 2
    /\ Len(backward_log) >= 4

(***************************************************************************)
(* C16: with an unrecognized subset_features_method, subset_rows_method or *)
(* concatenation method, whatever the other parameters, no train_epoch     *)
(* call is ever made.                                                      *)
(***************************************************************************)
C16_Unrecognized(c) ==
    \/ c.subset_features_method \notin {"random", "first", "mutual_information"}
    \/ c.subset_rows_method \notin {"random", "first"}
    \/ (c.do_concat # <<>> /\ ConcatOutcome(c.do_concat) = "NotImplementedError")

C16_ConfigFailsFast ==
    (r_cfg # PyNone /\ C16_Unrecognized(r_cfg)) =>
        /\ r_train_epochs = 0
        /\ r_pc \notin {"epoch", "looped", "returned"}

(***************************************************************************)
(* C17: a process of rank other than 0 writes no log, calls no callback    *)
(* and returns nothing; the process of rank 0 returns a result.            *)
(***************************************************************************)
C17_OnlyRankZero ==
    r_cfg # PyNone =>
        /\ r_cfg.rank # 0 =>
              /\ r_logs = {}
              /\ r_callbacks = {}
              /\ r_pc = "returned" => r_result = "None"
        /\ (r_cfg.rank = 0 /\ r_pc = "returned") => r_result = "tuple"

(***************************************************************************)
(* C19: with verbose logging and a recognized (or no) concatenation        *)
(* method, with prompt tuning or without, every validation epoch the loop  *)
(* has passed ended without error and left its log document.               *)
(***************************************************************************)
C19_EpochLogWritten ==
    ( /\ r_cfg # PyNone
      /\ r_cfg.verbose
      /\ (r_cfg.do_concat = <<>> \/ ConcatOutcome(r_cfg.do_concat) = "none") ) =>
        /\ r_error \notin {"UnboundLocalError", "NotImplementedError"}
        /\ \A e \in 1..r_train_epochs :
              ValidationEpoch(r_cfg, e) => e \in r_logs

(***************************************************************************)
(* C18: make_serializable returns a value json.dumps accepts; a scalar     *)
(* that json.dumps accepts comes back unchanged; a list, and a dict whose  *)
(* keys json.dumps accepts, come back as the list or dict of the converted *)
(* elements; converting the result again gives the result.                 *)
(***************************************************************************)
C18_Serializable ==
    /\ ms_pc \in {"once", "twice"} =>
          /\ JsonDumpsOk(ms_out)
          /\ ms_arg.t \in {"int", "str", "None"} => ms_out = ms_arg
          /\ ms_arg.t = "list" =>
                /\ ms_out.t = "list"
                /\ Len(ms_out.v) = Len(ms_arg.v)
                /\ \A j \in 1..Len(ms_arg.v) :
                      /\ JsonDumpsOk(ms_out.v[j])
                      /\ JsonDumpsOk(ms_arg.v[j]) => ms_out.v[j] = ms_arg.v[j]
          /\ (ms_arg.t = "dict" /\ \A k \in DOMAIN ms_arg.v : k.t = "str") =>
                /\ ms_out.t = "dict"
                /\ DOMAIN ms_out.v = DOMAIN ms_arg.v
                /\ \A k \in DOMAIN ms_arg.v :
                      /\ JsonDumpsOk(ms_out.v[k])
                      /\ JsonDumpsOk(ms_arg.v[k]) => ms_out.v[k] = ms_arg.v[k]
    /\ ms_pc = "twice" => ms_again = ms_out

\* a dict holding a list with a tensor and a callable, converted twice
C18_Witness ==
    /\ ms_pc = "twice"
    /\ ms_arg = [t |-> "dict",
                 v |-> (StrKey :> [t |-> "list",
                                   v |-> <<[t |-> "tensor"], [t |-> "callable"]>>])]
    /\ ms_out.v[StrKey].v[1] = [t |-> "str", v |-> "tensor"]
    /\ ms_again = ms_out

(***************************************************************************)
(* C21: under boosting member 0 is trained without blending; for a member  *)
(* i >= 1 the prior gradient of batch b is the one member i-1 stored for   *)
(* batch b; after member i's blending pass the stored gradient of batch b  *)
(* is member i's own raw output gradient.                                  *)
(***************************************************************************)
C21_PassDone ==
    \/ gb_pc \in {"assign", "done"}
    \/ gb_pc = "batch" /\ (gb_epoch > 1 \/ gb_batch = gb_cfg.len_dl)

C21_BlendPrevious ==
    (gb_pc # "idle" /\ gb_cfg.boosting) =>
        /\ gb_pc # "raised"
        /\ \A n \in 1..Len(blend_log) :
             LET e == blend_log[n]
             IN  /\ e.epoch = 1
                 /\ e.member = 0 => e.prior = PyNone
                 /\ e.member >= 1 =>
                        e.prior = [member |-> e.member - 1, batch |-> e.batch]
        /\ (gb_pc = "batch" /\ gb_epoch = 1 /\ gb_batch > 0) =>
              /\ gradient_dict[gb_batch - 1] =
                    [member |-> gb_member, batch |-> gb_batch - 1,
                     grad |-> last_backward.raw]
              /\ gb_member = 0 => last_backward.out = Element(last_backward.raw)
        /\ C21_PassDone =>
              \A b \in 0..(gb_cfg.len_dl - 1) :
                 /\ b \in DOMAIN gradient_dict
                 /\ gradient_dict[b].member = gb_member
                 /\ gradient_dict[b].batch = b

C21_Witness ==
    /\ gb_pc = "done"
    /\ gb_cfg.boosting
    /\ gb_member = 2
    /\ gb_cfg.epochs = 2
    /\ gb_cfg.len_dl = 2
    /\ \E n \in 1..Len(blend_log) :
          blend_log[n].member = 2 /\ blend_log[n].prior = [member |-> 1, batch |-> 1]

(***************************************************************************)
(* C22: in the blending step the sign of every blended element equals the  *)
(* sign of the current element (negative, zero or positive) for every pair *)
(* of current and prior values, and its magnitude is                       *)
(* sqrt(0.65*current^2 + 0.35*prior^2).                                    *)
(***************************************************************************)
C22_BlendSign ==
    (gb_pc # "idle" /\ last_backward.prior # PyNone) =>
        /\ last_backward.out.sign = Sign(last_backward.raw)
        /\ last_backward.out.sq100 =
              65 * last_backward.raw * last_backward.raw
              + 35 * last_backward.prior.v * last_backward.prior.v

(***************************************************************************)
(* C23: with size-ctl, for every original prefix size P >= 1 and every     *)
(* number n >= 2 of concatenated prefixes the resulting prefix (embedding  *)
(* and y labels) has exactly P rows, for the permutation and for the       *)
(* contiguous-slice selection, and the selected rows are distinct rows of  *)
(* the concatenated prefix.                                                *)
(***************************************************************************)
\* min(k, m + 1) of the call that ran
NumConcatenated == Min(IntOf(do_concat[Len(do_concat)]), Len(ec.prefix_weights) + 1)

C23_SizeCtl ==
    (/\ p_pc = "concatenated"
     /\ StartsWithRandInit(do_concat)
     /\ HasSizeCtl(do_concat)
     /\ NumConcatenated >= 2) =>
        /\ Len(prefix_embedding) = before.size
        /\ Len(prefix_y_embedding) = before.size
        /\ prefix_size = before.size
        /\ \A a \in 1..Len(prefix_embedding) :
              /\ prefix_embedding[a][1] \in 0..(NumConcatenated - 1)
              /\ prefix_embedding[a][2] \in 1..before.size
              /\ \A b \in 1..Len(prefix_embedding) :
                    a # b => prefix_embedding[a] # prefix_embedding[b]

(***************************************************************************)
(* C24: rand-init-k with m saved prefixes concatenates the current prefix  *)
(* with min(k, m+1) - 1 saved ones, so without size-ctl the prefix size is *)
(* original_size * min(k, m+1); with k = 1 or m = 0 embedding, y labels    *)
(* and size stay those of the current prefix.                              *)
(***************************************************************************)
\* the members whose rows are in the model's prefix
Owners == {prefix_embedding[a][1] : a \in 1..Len(prefix_embedding)}

C24_RandInitK ==
    (/\ p_pc = "concatenated"
     /\ StartsWithRandInit(do_concat)
     /\ IsNumeral(do_concat[Len(do_concat)])) =>
        LET k == IntOf(do_concat[Len(do_concat)])
            m == Len(prefix_weights_l)
            n == IF k <= m + 1 THEN k ELSE m + 1
        IN  /\ ~HasSizeCtl(do_concat) =>
                /\ prefix_size = before.size * n
                /\ Len(prefix_embedding) = before.size * n
                /\ Len(prefix_y_embedding) = before.size * n
                /\ SubSeq(prefix_embedding, 1, before.size) = before.embedding
                /\ SubSeq(prefix_y_embedding, 1, before.size) = before.y_embedding
                /\ Cardinality(Owners) = n
                /\ Owners \ {0} \subseteq
                      {prefix_weights_l[j].prefix_weights[1][1] : j \in 1..m}
            /\ (k = 1 \/ m = 0) =>
                /\ prefix_embedding = before.embedding
                /\ prefix_y_embedding = before.y_embedding
                /\ prefix_size = before.size

\* k = 3 is capped by the single saved prefix
C24_Witness ==
    /\ p_pc = "concatenated"
    /\ do_concat = <<"rand", "init", "3">>
    /\ Len(prefix_weights_l) = 1
    /\ before.size = 2
    /\ prefix_size = 4

(***************************************************************************)
(* C25: across the ensembling loop the recorded accuracy never decreases   *)
(* with the member index, it increases strictly exactly when the member is *)
(* accepted, and after iteration i the map has one entry for each member   *)
(* 0..i.                                                                   *)
(***************************************************************************)
C25_MonotoneAccuracy ==
    (is_ensemble /\ m_pc \in {"ensemble", "returned"}) =>
        /\ DOMAIN ensembling_acc = 0..i
        /\ \A n \in 1..i :
              /\ ensembling_acc[n].accuracy >= ensembling_acc[n - 1].accuracy
              /\ (ensembling_acc[n].accuracy > ensembling_acc[n - 1].accuracy)
                    <=> ~Rejected(n)
              /\ Rejected(n) => ensembling_acc[n] = ensembling_acc[n - 1]

\* an accepted member after a rejected one
C25_Witness ==
    /\ m_pc = "returned"
    /\ i = 2
    /\ Rejected(1)
    /\ ~Rejected(2)
    /\ ensembling_acc[2].accuracy > ensembling_acc[0].accuracy
    /\ ensembling_acc[1].accuracy = ensembling_acc[0].accuracy

(***************************************************************************)
(* C27: the window-inflation loop terminates for every training-set length *)
(* N >= 0, initial window size >= 1 and accumulation factor k >= 1, after  *)
(* at most N + 1 increments of the window size.                            *)
(***************************************************************************)
C27_InflationTerminates ==
    /\ <>(l_pc = "done")
    /\ [](n_incr <= train_len + 1)

\* the loop ran until the window passed the whole training set
C27_Witness ==
    /\ l_pc = "done"
    /\ n_incr >= 3
    /\ bptt = train_len + 1
    /\ bptt_arg = 1

(***************************************************************************)
(* C28: when the training set has at least as many rows as the initial     *)
(* window size, the loader left by window inflation yields at least one    *)
(* batch per epoch for every accumulation factor, so that train_epoch      *)
(* executes at least one step and returns its metrics.                     *)
(***************************************************************************)
C28_AtLeastOneBatch ==
    (l_pc = "done" /\ train_len >= bptt_arg) => LenDl(dl) >= 1

(***************************************************************************)
(* C26: the precondition asserted at the start of every train_epoch call,  *)
(* that the number of batches of the current training loader is divisible  *)
(* by the accumulation factor, holds for every member of every ensembling  *)
(* strategy, including the loaders bagging rebuilds over a half-size       *)
(* subset with the inflated window size.                                   *)
(***************************************************************************)
C26_AssertionHolds ==
    /\ bag_error = "none"
    /\ bag_pc = "train" => LenDl(dl) % aggregate_k_gradients = 0

(***************************************************************************)
(* C29: in a run without ensembling, after n invocations of the epoch      *)
(* callback exactly floor(n / save_every_k_epochs) checkpoints have been   *)
(* saved, one at each invocation whose ordinal is a multiple of            *)
(* save_every_k_epochs, with indices 0, 1, 2, ... in order; in a run with  *)
(* boosting, bagging or rand_init_ensemble no checkpoint is ever saved.    *)
(***************************************************************************)
C29_Checkpoints ==
    cb_pc \in {"training", "done"} =>
        IF Ensembling(cb_config)
        THEN checkpoints = <<>>
        ELSE /\ Len(checkpoints) = n_invoked \div cb_config.save_every_k_epochs
             /\ \A j \in 1..Len(checkpoints) :
                   /\ checkpoints[j].index = j - 1
                   /\ checkpoints[j].ordinal = j * cb_config.save_every_k_epochs

\* a run without ensembling: four invocations, a period of two, two checkpoints
C29_Witness ==
    /\ cb_pc = "done"
    /\ ~Ensembling(cb_config)
    /\ cb_config.save_every_k_epochs = 2
    /\ n_invoked = 4
    /\ Len(checkpoints) = 2

(***************************************************************************)
(* C30: the total_loss and total_positional_losses that train returns on   *)
(* rank 0 are the placeholders they were initialised with (infinity): no   *)
(* epoch of any member updates them, for every number of epochs and every  *)
(* ensembling configuration.                                               *)
(***************************************************************************)
C30_PlaceholdersReturned ==
    /\ rv_pc # "idle" => total_loss = Inf /\ total_positional_losses = Inf
    /\ (rv_pc = "returned" /\ rv_cfg.rank = 0) => rv_result = <<Inf, Inf>>

\* an ensembling run of three members and two epochs whose last epoch
\* measured a finite loss
C30_Witness ==
    /\ rv_pc = "returned"
    /\ rv_cfg.rank = 0
    /\ rv_cfg.is_ensemble
    /\ rv_member = 2
    /\ rv_cfg.epochs = 2
    /\ loop_locals.bound
    /\ loop_locals.total_loss = Float(1)
    /\ rv_result = <<Inf, Inf>>

====
